---- MODULE Spec2Model ----
(***************************************************************************)
(* A model of FabEdge's connector manager (pkg/connector: Manager.Start,   *)
(* runTasks, gracefulShutdown) and of the operator's start-up              *)
(* (pkg/operator/options.go: Complete, initAPIClient, runAPIServer,        *)
(* initializeControllers, recordEndpoints, recordIPAMBlocks).              *)
(***************************************************************************)
EXTENDS Integers, Sequences, FiniteSets, TLC

(***************************************************************************)
(* Connector state.                                                        *)
(***************************************************************************)
VARIABLES
    mainPC,         \* position of Manager.Start: "Start", "waitSignal",
                    \* "CleanRoutes", "CleanSNatIPTablesRules", "exited"
    pc,             \* position of each goroutine started by Manager.Start
    log,            \* per goroutine: the calls (with results) of the task
                    \* execution in progress, or of the last one finished
    routes,         \* routes to peer subnets are installed in the kernel
    snat,           \* SNAT rules are present in nat/POSTROUTING
    tunnelsActive,  \* the IPsec daemon reports at least one active tunnel
    tick,           \* the channel of time.Tick (capacity 1) holds a tick
    fileEvent,      \* a change of TunnelConfigFile awaits the watcher
    shutdownErrs    \* cleanup steps of gracefulShutdown that returned an error

connectorVars ==
    <<mainPC, pc, log, routes, snat, tunnelsActive, tick, fileEvent, shutdownErrs>>

(***************************************************************************)
(* Operator state.                                                         *)
(***************************************************************************)
VARIABLES
    opPC,           \* position of the operator: "Complete", "RunManager",
                    \* "recordIPAMBlocks", "recordEndpoints", "AddToManager",
                    \* "running", "exit" (an error was returned), "panic"
    opts,           \* the fields of Options
    clientSecret,   \* the secret api-client-tls of the cluster
    startSecret,    \* that secret as it was when the operator started
    completeErr,    \* what Complete returned: "nil" or the failed step
    opLog,          \* the calls Complete has made, in order
    fault,          \* the step of Complete that failed for an outside reason
    store,          \* the contents of opts.Store
    allocator,      \* the blocks opts.Agent.Allocator holds as used
    podCIDRStore,   \* the contents of opts.PodCIDRStore: <<node, CIDR>> pairs
    listed,         \* what the last recordEndpoints listed from the cluster
    initLog,        \* the calls of the last recordEndpoints on store and allocator
    initSteps,      \* recordIPAMBlocks and recordEndpoints as initializeControllers
                    \* has called them, each with the error it returned
    runErr,         \* what RunManager returned: the error of a runnable
    registered,     \* what has been added to opts.Manager, in order
    intervals,      \* <<routine, interval>>: the interval each routine added
                    \* to opts.Manager was built with
    ipamBlocks      \* the items of the IPAMBlockList that recordIPAMBlocks holds;
                    \* <<>> outside of it and after a List that failed

managerVars ==
    <<opPC, opts, clientSecret, startSecret, completeErr, opLog, fault, store, allocator,
      podCIDRStore, listed, initLog, initSteps, runErr, registered, intervals, ipamBlocks>>

(***************************************************************************)
(* State of the runnable runAPIServer of the operator.                     *)
(***************************************************************************)
VARIABLES
    ctxDone,        \* the context given to runAPIServer is cancelled
    apiPC,          \* position of runAPIServer: "unstarted", "start", "select",
                    \* "returned"
    apiErr,         \* what runAPIServer returned
    srvPC,          \* position of the goroutine of runAPIServer: "unstarted",
                    \* "ListenAndServeTLS", "Serve", "send" (blocked on errChan),
                    \* "done"
    srvErr,         \* what ListenAndServeTLS returned
    listening,      \* opts.APIServer holds its listener open
    accepted,       \* the requests the server has accepted
    responded       \* the requests the server has responded to

apiServerVars == <<ctxDone, apiPC, apiErr, srvPC, srvErr, listening, accepted, responded>>

(***************************************************************************)
(* State of a call of Options.Validate.                                    *)
(***************************************************************************)
VARIABLES
    vOpts,          \* the options Validate is called on
    vErr            \* what Validate returned: "unset" before the call, "nil",
                    \* the error, or "panic"

validateVars == <<vOpts, vErr>>

(***************************************************************************)
(* State of the agent controller's certHandler.                            *)
(***************************************************************************)
VARIABLES
    certSecrets,    \* the TLS secrets of the namespace, by secret name
    lastOp          \* the last operation on the secrets, with its node and error

certHandlerVars == <<certSecrets, lastOp>>

operatorVars == <<managerVars, apiServerVars, validateVars, certHandlerVars>>

vars == <<connectorVars, operatorVars>>

\* The goroutine of `go runTasks(...)` and the one of `go m.onConfigFileChange(...)`.
Goroutines == {"runTasks", "onConfigFileChange"}

Results == {"ok", "err"}

\* What GetConnectorPrefixes can return: each prefix list empty or not.
ConnectorPrefixes ==
    [LocalPrefixes : {{}, {"10.233.0.0/18"}}, RemotePrefixes : {{}, {"10.234.64.0/18"}}]

\* No prefixes: what a call that carries no prefixes is logged with.
NoPrefixes == [LocalPrefixes |-> {}, RemotePrefixes |-> {}]

\* One logged call: its name, its result and the prefixes it returned or sent.
Call(name, res) == [call |-> name, res |-> res, cp |-> NoPrefixes]
CallWith(name, res, cp) == [call |-> name, res |-> res, cp |-> cp]

\* tasks := []func(){tunnelTaskFn, routeTaskFn, ipsetTaskFn, iptablesTaskFn}
tasks == <<"tunnelTaskFn", "routeTaskFn", "ipsetTaskFn", "iptablesTaskFn">>

\* The four set syncs of ipsetTaskFn and the three ensure steps of
\* iptablesTaskFn, in the order of the code.
ipsetSteps ==
    <<"syncEdgeNodeCIDRSet", "syncCloudPodCIDRSet", "syncCloudNodeCIDRSet", "syncEdgePodCIDRSet">>

iptablesSteps ==
    <<"ensureForwardIPTablesRules", "ensureNatIPTablesRules", "ensureInputIPTablesRules">>

\* A goroutine runs as long as the process lives: until Manager.Start returns.
Alive(g) == mainPC \notin {"Start", "exited"} /\ pc[g] # "unstarted"

\* runTasks without its `<-t`: a round follows the other at once.
RoundEndWithoutTick(g) == IF g = "runTasks" THEN "tunnelTaskFn" ELSE "watch"

\* Where a goroutine goes once its round of tasks is over.
RoundEnd(g) == IF g = "runTasks" THEN "waitTick" ELSE "watch"

ConnectorStart ==
    /\ mainPC = "Start"
    /\ pc = [g \in Goroutines |-> "unstarted"]
    /\ log = [g \in Goroutines |-> <<>>]
    /\ routes \in BOOLEAN
    /\ snat \in BOOLEAN
    /\ tunnelsActive \in BOOLEAN
    /\ tick = FALSE
    /\ fileEvent = FALSE
    /\ shutdownErrs = {}

\* Manager.Start up to `<-ch`: clear the fabedge chains, start both goroutines.
Start ==
    /\ mainPC = "Start"
    /\ \E r \in Results : snat' = IF r = "ok" THEN FALSE ELSE snat
    /\ pc' = [g \in Goroutines |-> IF g = "runTasks" THEN tasks[1] ELSE "watch"]
    /\ mainPC' = "waitSignal"
    /\ UNCHANGED operatorVars
    /\ UNCHANGED <<log, routes, tunnelsActive, tick, fileEvent, shutdownErrs>>

\* The runtime timer of time.Tick: a tick is dropped when the channel is full.
TickFire ==
    /\ mainPC \notin {"Start", "exited"}
    /\ ~tick
    /\ tick' = TRUE
    /\ UNCHANGED operatorVars
    /\ UNCHANGED <<mainPC, pc, log, routes, snat, tunnelsActive, fileEvent, shutdownErrs>>

\* runTasks: `<-t`, then the next round.
AwaitTick ==
    /\ Alive("runTasks")
    /\ pc["runTasks"] = "waitTick"
    /\ tick
    /\ tick' = FALSE
    /\ pc' = [pc EXCEPT !["runTasks"] = tasks[1]]
    /\ log' = [log EXCEPT !["runTasks"] = <<>>]
    /\ UNCHANGED operatorVars
    /\ UNCHANGED <<mainPC, routes, snat, tunnelsActive, fileEvent, shutdownErrs>>

\* The tunnel config file is rewritten.
FileChange ==
    /\ mainPC \notin {"Start", "exited"}
    /\ ~fileEvent
    /\ fileEvent' = TRUE
    /\ UNCHANGED operatorVars
    /\ UNCHANGED <<mainPC, pc, log, routes, snat, tunnelsActive, tick, shutdownErrs>>

\* onConfigFileChange: on a change of the file, run all the tasks.
OnConfigFileChange ==
    /\ Alive("onConfigFileChange")
    /\ pc["onConfigFileChange"] = "watch"
    /\ fileEvent
    /\ fileEvent' = FALSE
    /\ pc' = [pc EXCEPT !["onConfigFileChange"] = tasks[1]]
    /\ log' = [log EXCEPT !["onConfigFileChange"] = <<>>]
    /\ UNCHANGED operatorVars
    /\ UNCHANGED <<mainPC, routes, snat, tunnelsActive, tick, shutdownErrs>>

\* tunnelTaskFn enters m.syncConnections(), which talks to the IPsec daemon.
SyncConnectionsCall(g) ==
    /\ Alive(g)
    /\ pc[g] = "tunnelTaskFn"
    /\ pc' = [pc EXCEPT ![g] = "syncConnections"]
    /\ log' = [log EXCEPT ![g] = <<>>]
    /\ UNCHANGED operatorVars
    /\ UNCHANGED <<mainPC, routes, snat, tunnelsActive, tick, fileEvent, shutdownErrs>>

\* m.syncConnections() returns; on an error the task is over.
SyncConnectionsReturn(g) ==
    /\ Alive(g)
    /\ pc[g] = "syncConnections"
    /\ \E r \in Results :
        /\ log' = [log EXCEPT ![g] = Append(@, Call("syncConnections", r))]
        /\ IF r = "ok"
           THEN /\ tunnelsActive' \in BOOLEAN
                /\ pc' = [pc EXCEPT ![g] = "broadcastToAgents"]
           ELSE /\ tunnelsActive' = tunnelsActive
                /\ pc' = [pc EXCEPT ![g] = "routeTaskFn"]
    /\ UNCHANGED operatorVars
    /\ UNCHANGED <<mainPC, routes, snat, tick, fileEvent, shutdownErrs>>

\* broadcastToAgents with the call of m.mc.Broadcast left out.
broadcastToAgentsNoSend(gcp, cp, m) ==
    IF gcp = "err"
    THEN <<Call("GetConnectorPrefixes", "err")>>
    ELSE IF Cardinality(cp.RemotePrefixes) < 1 \/ Cardinality(cp.LocalPrefixes) < 1
    THEN <<CallWith("GetConnectorPrefixes", "ok", cp)>>
    ELSE <<CallWith("GetConnectorPrefixes", "ok", cp), Call("Marshal", m)>>

\* The calls broadcastToAgents makes for what GetConnectorPrefixes (its
\* result gcp and the prefixes cp) and json.Marshal (m) return. After a
\* failed Marshal the payload b is nil, and is broadcast all the same.
broadcastToAgents(gcp, cp, m) ==
    IF gcp = "err"
    THEN <<Call("GetConnectorPrefixes", "err")>>
    ELSE IF Cardinality(cp.RemotePrefixes) < 1 \/ Cardinality(cp.LocalPrefixes) < 1
    THEN <<CallWith("GetConnectorPrefixes", "ok", cp)>>
    ELSE <<CallWith("GetConnectorPrefixes", "ok", cp),
           Call("Marshal", m),
           IF m = "ok" THEN CallWith("Broadcast", "payload", cp)
                       ELSE Call("Broadcast", "nil")>>

\* tunnelTaskFn after a successful syncConnections.
BroadcastToAgents(g) ==
    /\ Alive(g)
    /\ pc[g] = "broadcastToAgents"
    /\ \E gcp \in Results, cp \in ConnectorPrefixes, m \in Results :
        log' = [log EXCEPT ![g] = @ \o broadcastToAgents(gcp, cp, m)]
    /\ pc' = [pc EXCEPT ![g] = "routeTaskFn"]
    /\ UNCHANGED operatorVars
    /\ UNCHANGED <<mainPC, routes, snat, tunnelsActive, tick, fileEvent, shutdownErrs>>

\* routeTaskFn enters m.tm.IsActive(), a query to the IPsec daemon.
IsActiveCall(g) ==
    /\ Alive(g)
    /\ pc[g] = "routeTaskFn"
    /\ pc' = [pc EXCEPT ![g] = "IsActive"]
    /\ log' = [log EXCEPT ![g] = <<>>]
    /\ UNCHANGED operatorVars
    /\ UNCHANGED <<mainPC, routes, snat, tunnelsActive, tick, fileEvent, shutdownErrs>>

\* routeTaskFn without the return after a failed IsActive: active is then
\* false, and the routes are cleaned.
routeTaskBranchNoReturn(active) ==
    IF active = "true" THEN "SyncRoutes" ELSE "CleanRoutes"

\* routeTaskFn with a failed IsActive keeping the round from its ipset task.
routeTaskBranchSkippingIpset(active) ==
    IF active = "err" THEN "iptablesTaskFn"
    ELSE IF active = "true" THEN "SyncRoutes" ELSE "CleanRoutes"

\* Where routeTaskFn goes for what IsActive returned.
routeTaskBranch(active) ==
    IF active = "err" THEN "ipsetTaskFn"
    ELSE IF active = "true" THEN "SyncRoutes" ELSE "CleanRoutes"

IsActiveReturn(g) ==
    /\ Alive(g)
    /\ pc[g] = "IsActive"
    /\ \E active \in {"err", IF tunnelsActive THEN "true" ELSE "false"} :
        /\ log' = [log EXCEPT ![g] = Append(@, Call("IsActive", active))]
        /\ pc' = [pc EXCEPT ![g] = routeTaskBranch(active)]
    /\ UNCHANGED operatorVars
    /\ UNCHANGED <<mainPC, routes, snat, tunnelsActive, tick, fileEvent, shutdownErrs>>

\* m.router.SyncRoutes(m.connections) in routeTaskFn.
SyncRoutes(g) ==
    /\ Alive(g)
    /\ pc[g] = "SyncRoutes"
    /\ \E r \in Results :
        /\ log' = [log EXCEPT ![g] = Append(@, Call("SyncRoutes", r))]
        /\ routes' = IF r = "ok" THEN TRUE ELSE routes
    /\ pc' = [pc EXCEPT ![g] = "ipsetTaskFn"]
    /\ UNCHANGED operatorVars
    /\ UNCHANGED <<mainPC, snat, tunnelsActive, tick, fileEvent, shutdownErrs>>

\* m.router.CleanRoutes(m.connections) in routeTaskFn.
CleanRoutes(g) ==
    /\ Alive(g)
    /\ pc[g] = "CleanRoutes"
    /\ \E r \in Results :
        /\ log' = [log EXCEPT ![g] = Append(@, Call("CleanRoutes", r))]
        /\ routes' = IF r = "ok" THEN FALSE ELSE routes
    /\ pc' = [pc EXCEPT ![g] = "ipsetTaskFn"]
    /\ UNCHANGED operatorVars
    /\ UNCHANGED <<mainPC, snat, tunnelsActive, tick, fileEvent, shutdownErrs>>

\* The position of ipsetTaskFn before its i-th set sync, and after its last.
ipsetPC(i) ==
    IF i = 1 THEN "ipsetTaskFn"
    ELSE IF i <= Len(ipsetSteps) THEN ipsetSteps[i] ELSE "iptablesTaskFn"

\* ipsetTaskFn: the i-th set sync; an error is logged and the next one follows.
IpsetSync(g, i) ==
    /\ Alive(g)
    /\ pc[g] = ipsetPC(i)
    /\ \E r \in Results :
        log' = [log EXCEPT ![g] = Append(IF i = 1 THEN <<>> ELSE @, Call(ipsetSteps[i], r))]
    /\ pc' = [pc EXCEPT ![g] = ipsetPC(i + 1)]
    /\ UNCHANGED operatorVars
    /\ UNCHANGED <<mainPC, routes, snat, tunnelsActive, tick, fileEvent, shutdownErrs>>

\* The position of iptablesTaskFn before its i-th ensure step, and after its last.
iptablesPC(g, i) ==
    IF i = 1 THEN "iptablesTaskFn"
    ELSE IF i <= Len(iptablesSteps) THEN iptablesSteps[i] ELSE RoundEnd(g)

\* iptablesTaskFn: the i-th ensure step; ensureNatIPTablesRules installs the
\* SNAT rules.
IptablesEnsure(g, i) ==
    /\ Alive(g)
    /\ pc[g] = iptablesPC(g, i)
    /\ \E r \in Results :
        /\ log' = [log EXCEPT ![g] = Append(IF i = 1 THEN <<>> ELSE @, Call(iptablesSteps[i], r))]
        /\ snat' = IF iptablesSteps[i] = "ensureNatIPTablesRules" /\ r = "ok" THEN TRUE ELSE snat
    /\ pc' = [pc EXCEPT ![g] = iptablesPC(g, i + 1)]
    /\ UNCHANGED operatorVars
    /\ UNCHANGED <<mainPC, routes, tunnelsActive, tick, fileEvent, shutdownErrs>>

\* SIGINT or SIGTERM arrives on ch: Manager.Start goes on to gracefulShutdown.
Signal ==
    /\ mainPC = "waitSignal"
    /\ mainPC' = "CleanRoutes"
    /\ UNCHANGED operatorVars
    /\ UNCHANGED <<pc, log, routes, snat, tunnelsActive, tick, fileEvent, shutdownErrs>>

\* gracefulShutdown: m.router.CleanRoutes(m.connections), its error only logged.
ShutdownCleanRoutes ==
    /\ mainPC = "CleanRoutes"
    /\ \E r \in Results :
        /\ routes' = IF r = "ok" THEN FALSE ELSE routes
        /\ shutdownErrs' = IF r = "ok" THEN shutdownErrs ELSE shutdownErrs \cup {"CleanRoutes"}
    /\ mainPC' = "CleanSNatIPTablesRules"
    /\ UNCHANGED operatorVars
    /\ UNCHANGED <<pc, log, snat, tunnelsActive, tick, fileEvent>>

\* gracefulShutdown: m.CleanSNatIPTablesRules(); then Manager.Start returns and
\* the process, with its goroutines, ends.
ShutdownCleanSNat ==
    /\ mainPC = "CleanSNatIPTablesRules"
    /\ \E r \in Results :
        /\ snat' = IF r = "ok" THEN FALSE ELSE snat
        /\ shutdownErrs' = IF r = "ok" THEN shutdownErrs
                           ELSE shutdownErrs \cup {"CleanSNatIPTablesRules"}
    /\ mainPC' = "exited"
    /\ UNCHANGED operatorVars
    /\ UNCHANGED <<pc, log, routes, tunnelsActive, tick, fileEvent>>

ConnectorNext ==
    \/ Start
    \/ TickFire
    \/ AwaitTick
    \/ FileChange
    \/ OnConfigFileChange
    \/ \E g \in Goroutines : SyncConnectionsCall(g)
    \/ \E g \in Goroutines : SyncConnectionsReturn(g)
    \/ \E g \in Goroutines : BroadcastToAgents(g)
    \/ \E g \in Goroutines : IsActiveCall(g)
    \/ \E g \in Goroutines : IsActiveReturn(g)
    \/ \E g \in Goroutines : SyncRoutes(g)
    \/ \E g \in Goroutines : CleanRoutes(g)
    \/ \E g \in Goroutines, i \in 1..Len(ipsetSteps) : IpsetSync(g, i)
    \/ \E g \in Goroutines, i \in 1..Len(iptablesSteps) : IptablesEnsure(g, i)
    \/ Signal
    \/ ShutdownCleanRoutes
    \/ ShutdownCleanSNat

(***************************************************************************)
(* The operator: Options.Complete and what it calls.                       *)
(***************************************************************************)

\* One second, in the unit durations are counted in (100 ms).
Second == 10

\* The width of an address; IPv4's 32 bits scaled down.
AddrBits == 3

\* A CIDR string is modelled as <<address, prefix length>>. net.ParseCIDR
\* rejects a prefix length beyond the address width and otherwise returns
\* the address and the network: the address with its host bits cleared.
ParseCIDR(s) ==
    IF s[1] \in 0..(2^AddrBits - 1) /\ s[2] \in 0..AddrBits
    THEN [ok |-> TRUE, ip |-> s[1], net |-> <<s[1] - (s[1] % 2^(AddrBits - s[2])), s[2]>>]
    ELSE [ok |-> FALSE, ip |-> 0, net |-> <<0, 0>>]

\* A string that is no CIDR, and the flag --edge-pod-cidr left unset.
BadCIDR == <<0, AddrBits + 6>>
NoCIDR == <<0, AddrBits + 7>>

\* strings.TrimSpace on a string given as a sequence of pieces, " " being
\* white space.
RECURSIVE TrimLeft(_)
TrimLeft(s) == IF s # <<>> /\ Head(s) = " " THEN TrimLeft(Tail(s)) ELSE s

RECURSIVE TrimRight(_)
TrimRight(s) ==
    IF s # <<>> /\ s[Len(s)] = " " THEN TrimRight(SubSeq(s, 1, Len(s) - 1)) ELSE s

TrimSpace(s) == TrimRight(TrimLeft(s))

\* constants.CNICalico, constants.CNIFlannel
CNICalico == <<"calico">>
CNIFlannel == <<"flannel">>

RoleHost == "host"
RoleMember == "member"
ClientTLSSecretName == "api-client-tls"

\* A TLS secret: whether it exists, the CN of its certificate, whether the
\* certificate has expired, whether tls.crt and tls.key parse as a key pair,
\* and whether the certificate was signed for this start (token enrollment).
NoSecret == [exists |-> FALSE, name |-> "", cn |-> "", expired |-> FALSE,
             keyPair |-> FALSE, enrolled |-> FALSE]

ExistingSecret(cn, expired, keyPair) ==
    [exists |-> TRUE, name |-> ClientTLSSecretName, cn |-> cn, expired |-> expired,
     keyPair |-> keyPair, enrolled |-> FALSE]

\* The API client: unset, or built with the certificate of a secret.
NoClient == [set |-> FALSE, cert |-> NoSecret]

\* The host accepts an init token it signed and that has not expired.
TokenValid(token) == token = "valid-token"

\* The steps of Complete that can fail for reasons outside the operator.
CompleteSteps ==
    {"allocator.New", "GetConfig", "client.New", "manager.New", "createCertManager",
     "certutil.NewManger", "GetCertificate", "Get", "NewCertRequest", "SignCertByToken",
     "Create", "NewClient", "NewRemoteManager", "apiserver.New", "LoadX509KeyPair"}

\* fclient.SignCertByToken: the host signs the CSR when the token is valid.
SignCertByToken(token, csrCN, fail) ==
    IF fail = "SignCertByToken" \/ ~TokenValid(token)
    THEN [err |-> "SignCertByToken", cert |-> NoSecret]
    ELSE [err |-> "nil",
          cert |-> [exists |-> TRUE, name |-> "", cn |-> csrCN, expired |-> FALSE,
                    keyPair |-> TRUE, enrolled |-> TRUE]]

\* createTLSSecretForClient: the secret it returns, its error, the calls it
\* made, and the secret api-client-tls of the cluster afterwards.
createTLSSecretForClient(o, fail) ==
    LET csrCN == o.Cluster \o ".fabedge-client"
        signed == SignCertByToken(o.InitToken, csrCN, fail)
        secret == [signed.cert EXCEPT !.name = ClientTLSSecretName]
    IN  IF fail = "NewCertRequest"
        THEN [secret |-> NoSecret, err |-> "NewCertRequest", calls |-> <<"NewCertRequest">>,
              persisted |-> NoSecret]
        ELSE IF signed.err # "nil"
        THEN [secret |-> NoSecret, err |-> signed.err,
              calls |-> <<"NewCertRequest", "SignCertByToken">>, persisted |-> NoSecret]
        ELSE IF fail = "Create"
        THEN [secret |-> secret, err |-> "Create",
              calls |-> <<"NewCertRequest", "SignCertByToken", "Create">>,
              persisted |-> NoSecret]
        ELSE [secret |-> secret, err |-> "nil",
              calls |-> <<"NewCertRequest", "SignCertByToken", "Create">>,
              persisted |-> secret]

\* The end of initAPIClient, from tls.X509KeyPair on, with the secret it holds.
buildAPIClient(secret, existing, calls, fail) ==
    IF ~secret.keyPair
    THEN [APIClient |-> NoClient, err |-> "X509KeyPair", calls |-> Append(calls, "X509KeyPair"),
          secret |-> existing]
    ELSE IF fail = "NewClient"
    THEN [APIClient |-> NoClient, err |-> "NewClient",
          calls |-> calls \o <<"X509KeyPair", "NewClient">>, secret |-> existing]
    ELSE [APIClient |-> [set |-> TRUE, cert |-> secret], err |-> "nil",
          calls |-> calls \o <<"X509KeyPair", "NewClient">>, secret |-> existing]

\* initAPIClient taking every error of Get for NotFound.
initAPIClientAnyErrorNotFound(o, existing, fail) ==
    IF existing.exists /\ fail # "Get"
    THEN buildAPIClient(existing, existing, <<"Get">>, fail)
    ELSE LET created == createTLSSecretForClient(o, fail)
         IN  IF created.err # "nil"
             THEN [APIClient |-> NoClient, err |-> created.err,
                   calls |-> <<"Get">> \o created.calls, secret |-> created.persisted]
             ELSE buildAPIClient(created.secret, created.persisted,
                                 <<"Get">> \o created.calls, fail)

\* initAPIClient: the API client, the error, the calls made and the secret
\* api-client-tls of the cluster afterwards. `existing` is that secret before.
initAPIClient(o, existing, fail) ==
    IF fail = "Get"
    THEN [APIClient |-> NoClient, err |-> "Get", calls |-> <<"Get">>, secret |-> existing]
    ELSE IF existing.exists
    THEN buildAPIClient(existing, existing, <<"Get">>, fail)
    ELSE LET created == createTLSSecretForClient(o, fail)
         IN  IF created.err # "nil"
             THEN [APIClient |-> NoClient, err |-> created.err,
                   calls |-> <<"Get">> \o created.calls, secret |-> created.persisted]
             ELSE buildAPIClient(created.secret, created.persisted,
                                 <<"Get">> \o created.calls, fail)

\* What Complete returns: the options as it leaves them, its error ("nil"
\* for none), the calls it made and the secret api-client-tls afterwards.
Return(o, err, calls, secret) == [opts |-> o, err |-> err, calls |-> calls, secret |-> secret]

\* Complete, lines 260-287: in host role the API server and its TLS config.
completeAPIServer(o, calls, secret, fail) ==
    IF o.ClusterRole # RoleHost
    THEN Return(o, "nil", calls, secret)
    ELSE IF fail = "apiserver.New"
    THEN Return(o, "apiserver.New", Append(calls, "apiserver.New"), secret)
    ELSE IF fail = "LoadX509KeyPair"
    THEN Return([o EXCEPT !.APIServer = "created"], "LoadX509KeyPair",
                calls \o <<"apiserver.New", "LoadX509KeyPair">>, secret)
    ELSE Return([o EXCEPT !.APIServer = "tls"], "nil",
                calls \o <<"apiserver.New", "LoadX509KeyPair">>, secret)

\* Complete, lines 237-258: the store, and the configs of the controllers.
completeStore(o, calls, secret, fail) ==
    completeAPIServer([o EXCEPT !.Store = TRUE], Append(calls, "NewStore"), secret, fail)

\* Complete, lines 202-211 with createCertManager: the cert manager of a host,
\* built from the CA certificate and the CA key of the CA secret.
completeHostCerts(o, calls, secret, fail) ==
    IF fail = "createCertManager"
    THEN Return(o, "createCertManager", Append(calls, "createCertManager"), secret)
    ELSE IF fail = "certutil.NewManger"
    THEN Return([o EXCEPT !.PrivateKey = TRUE], "certutil.NewManger",
                Append(calls, "createCertManager"), secret)
    ELSE completeStore([o EXCEPT !.PrivateKey = TRUE, !.CertManager = "local"],
                       Append(calls, "createCertManager"), secret, fail)

\* A member building its cert manager as a host does, from the CA secret.
completeMemberCertsWithKey(o, calls, secret, fail) ==
    completeHostCerts(o, calls, secret, fail)

\* Complete, lines 212-235: the CA certificate of the host, the API client
\* and the remote cert manager of a member, which signs by sending the CSR
\* to the host through opts.APIClient.SignCert.
completeMemberCerts(o, calls, secret, fail) ==
    IF fail = "GetCertificate"
    THEN Return(o, "GetCertificate", Append(calls, "GetCertificate"), secret)
    ELSE LET client == initAPIClient(o, secret, fail)
             o2 == [o EXCEPT !.APIClient = client.APIClient]
             calls2 == Append(calls, "GetCertificate") \o client.calls
         IN  IF client.err # "nil"
             THEN Return(o2, client.err, calls2, client.secret)
             ELSE IF fail = "NewRemoteManager"
             THEN Return(o2, "NewRemoteManager", Append(calls2, "NewRemoteManager"),
                         client.secret)
             ELSE completeStore([o2 EXCEPT !.CertManager = "remote"],
                                Append(calls2, "NewRemoteManager"), client.secret, fail)

\* Complete, lines 181-235: the kube config, the kube client, the controller
\* manager, then the certificates by role. A failure to load the kube
\* config is logged and nil returned.
completeClients(o, calls, secret, fail) ==
    IF fail = "GetConfig"
    THEN Return(o, "nil", Append(calls, "GetConfig"), secret)
    ELSE IF fail = "client.New"
    THEN Return(o, "client.New", calls \o <<"GetConfig", "client.New">>, secret)
    ELSE IF fail = "manager.New"
    THEN Return(o, "manager.New", calls \o <<"GetConfig", "client.New", "manager.New">>, secret)
    ELSE LET o2 == [o EXCEPT !.Manager = TRUE]
             calls2 == calls \o <<"GetConfig", "client.New", "manager.New">>
         IN  IF o.ClusterRole = RoleHost
             THEN completeHostCerts(o2, calls2, secret, fail)
             ELSE completeMemberCerts(o2, calls2, secret, fail)

\* Complete taking every CNI type but calico for flannel.
completeFlannelByDefault(o, secret, fail) ==
    LET cni == TrimSpace(o.CNIType)
        o1 == [o EXCEPT !.CNIType = cni]
    IN  IF cni = CNICalico
        THEN LET o2 == [o1 EXCEPT !.EnableEdgeIPAM = TRUE, !.PodCIDRStore = TRUE]
             IN  IF fail = "allocator.New" \/ ~ParseCIDR(o.EdgePodCIDR).ok
                 THEN Return(o2, "allocator.New", <<"allocator.New">>, secret)
                 ELSE completeClients([o2 EXCEPT !.Allocator = TRUE, !.NewEndpoint = TRUE],
                                      <<"allocator.New">>, secret, fail)
        ELSE completeClients([o1 EXCEPT !.NewEndpoint = TRUE], <<>>, secret, fail)

\* Options.Complete.
complete(o, secret, fail) ==
    LET cni == TrimSpace(o.CNIType)
        o1 == [o EXCEPT !.CNIType = cni]
    IN  IF cni = CNICalico
        THEN LET o2 == [o1 EXCEPT !.EnableEdgeIPAM = TRUE, !.PodCIDRStore = TRUE]
             IN  IF fail = "allocator.New" \/ ~ParseCIDR(o.EdgePodCIDR).ok
                 THEN Return(o2, "allocator.New", <<"allocator.New">>, secret)
                 ELSE completeClients([o2 EXCEPT !.Allocator = TRUE, !.NewEndpoint = TRUE],
                                      <<"allocator.New">>, secret, fail)
        ELSE IF cni = CNIFlannel
        THEN completeClients([o1 EXCEPT !.NewEndpoint = TRUE], <<>>, secret, fail)
        ELSE Return(o1, "unknown CNI", <<>>, secret)

\* The command line and the cluster an operator can start with.
CNITypes == {CNICalico, <<" ", "calico", " ">>, CNIFlannel, <<"cilium">>, <<>>}

StartOptions ==
    {[Cluster |-> "sh", ClusterRole |-> role, CNIType |-> cni, EdgePodCIDR |-> cidr,
      InitToken |-> token, EnableProxy |-> proxy,
      EnableEdgeIPAM |-> FALSE, PodCIDRStore |-> FALSE, Allocator |-> FALSE,
      NewEndpoint |-> FALSE, Manager |-> FALSE, CertManager |-> "none",
      PrivateKey |-> FALSE, Store |-> FALSE, APIClient |-> NoClient, APIServer |-> "none"] :
        role \in {RoleHost, RoleMember}, cni \in CNITypes, cidr \in {<<0, 0>>, BadCIDR, NoCIDR},
        token \in {"", "valid-token", "expired-token"}, proxy \in BOOLEAN}

\* The secret api-client-tls a member can find: none, one with a valid or
\* an expired certificate, one whose data is no key pair. A host has none.
StartSecrets(o) ==
    IF o.ClusterRole = RoleHost THEN {NoSecret}
    ELSE {NoSecret,
          ExistingSecret(o.Cluster \o ".fabedge-client", FALSE, TRUE),
          ExistingSecret(o.Cluster \o ".fabedge-client", TRUE, TRUE),
          ExistingSecret("", FALSE, FALSE)}

\* The options main accepts: a member has an init token, a host needs none;
\* --edge-pod-cidr is given with Calico only.
Accepted(o) ==
    /\ (o.ClusterRole = RoleMember) <=> (o.InitToken # "")
    /\ (o.EdgePodCIDR = NoCIDR) <=> (TrimSpace(o.CNIType) # CNICalico)

NoStore == [endpoints |-> {}, communities |-> {}]
NoListing == [nodes |-> <<>>, communities |-> <<>>]

OperatorStart ==
    /\ opPC = "Complete"
    /\ opts \in {o \in StartOptions : Accepted(o)}
    /\ clientSecret \in StartSecrets(opts)
    /\ startSecret = clientSecret
    /\ completeErr = "unset"
    /\ opLog = <<>>
    /\ fault = "none"
    /\ store = NoStore
    /\ allocator = {}
    /\ podCIDRStore = {}
    /\ listed = NoListing
    /\ initLog = <<>>
    /\ initSteps = <<>>
    /\ runErr = "unset"
    /\ registered = <<>>
    /\ intervals = {}
    /\ ipamBlocks = <<>>

\* main calls opts.Complete(); on an error the operator exits.
Complete ==
    /\ opPC = "Complete"
    /\ \E fail \in CompleteSteps \cup {"none"} :
        LET r == complete(opts, clientSecret, fail)
        IN  /\ opts' = r.opts
            /\ clientSecret' = r.secret
            /\ completeErr' = r.err
            /\ opLog' = r.calls
            /\ fault' = IF r = complete(opts, clientSecret, "none") THEN "none" ELSE fail
            /\ opPC' = IF r.err = "nil" THEN "RunManager" ELSE "exit"
    /\ UNCHANGED <<connectorVars, apiServerVars, validateVars, certHandlerVars>>
    /\ UNCHANGED <<startSecret, store, allocator, podCIDRStore, listed, initLog, initSteps,
                   runErr, registered, intervals, ipamBlocks>>

\* RunManager: add initializeControllers and, in host role, runAPIServer to
\* the manager and start it. The manager then runs initializeControllers.
\* With opts.Manager nil the call of Manager.Add panics.
RunManager ==
    /\ opPC = "RunManager"
    /\ \E fail \in {"none", "Add initializeControllers", "Add runAPIServer"} :
        IF ~opts.Manager
        THEN /\ opPC' = "panic"
             /\ UNCHANGED <<runErr, registered>>
        ELSE IF fail = "Add initializeControllers"
        THEN /\ opPC' = "exit"
             /\ runErr' = fail
             /\ UNCHANGED registered
        ELSE IF opts.ClusterRole = RoleHost /\ fail = "Add runAPIServer"
        THEN /\ opPC' = "exit"
             /\ runErr' = fail
             /\ registered' = Append(registered, "initializeControllers")
        ELSE /\ opPC' = IF opts.CNIType = CNICalico THEN "recordIPAMBlocks"
                                                    ELSE "recordEndpoints"
             /\ registered' = registered \o
                    (IF opts.ClusterRole = RoleHost
                     THEN <<"initializeControllers", "runAPIServer">>
                     ELSE <<"initializeControllers">>)
             /\ UNCHANGED runErr
    /\ UNCHANGED <<connectorVars, apiServerVars, validateVars, certHandlerVars>>
    /\ UNCHANGED <<opts, clientSecret, startSecret, completeErr, opLog, fault, store,
                   allocator, podCIDRStore, listed, initLog, initSteps, intervals,
                   ipamBlocks>>

\* The most nodes, communities and IPAM blocks the cluster lists.
MaxNodes == 2
MaxCommunities == 1
MaxBlocks == 2

NodeName(i) == "edge" \o ToString(i)

\* The pod CIDR of the i-th edge node: a block of two addresses.
NodeCIDR(i) == <<(2 * (i - 1)) % (2^AddrBits), AddrBits - 1>>

\* How many of its address, its host CIDR and its pod CIDRs a node lacks.
Lacks(n) ==
    (IF n.addresses = {} THEN 1 ELSE 0) + (IF n.hostCIDRs = {} THEN 1 ELSE 0)
        + (IF n.podCIDRs = <<>> THEN 1 ELSE 0)

\* The i-th edge node as the cluster can hold it: complete, lacking its
\* address, its host CIDR or its pod CIDR, lacking all three, or with a pod
\* CIDR that is no CIDR.
NodeVariants(i) ==
    {n \in [name : {NodeName(i)},
            addresses : {{}, {"10.40.20.18" \o ToString(i)}},
            hostCIDRs : {{}, {"10.40.20.18" \o ToString(i) \o "/32"}},
            podCIDRs : {<<>>, <<NodeCIDR(i)>>, <<BadCIDR>>}] :
        /\ Lacks(n) # 2
        /\ n.podCIDRs = <<BadCIDR>> => Lacks(n) = 0}

\* The lists of edge nodes cli.List can return.
RECURSIVE NodeListsFrom(_)
NodeListsFrom(i) ==
    IF i > MaxNodes THEN {<<>>}
    ELSE LET rest == NodeListsFrom(i + 1)
         IN  rest \cup {<<n>> \o r : n \in NodeVariants(i), r \in rest}

NodeLists == NodeListsFrom(1)

\* The lists of Community objects cli.List can return; Spec.Members may
\* name a member twice.
CommunityVariants(i) ==
    [Name : {"community" \o ToString(i)},
     Members : {<<>>, <<"sh.connector", "sh.edge1">>, <<"sh.edge1", "sh.edge1">>}]

RECURSIVE CommunityListsFrom(_)
CommunityListsFrom(i) ==
    IF i > MaxCommunities THEN {<<>>}
    ELSE LET rest == CommunityListsFrom(i + 1)
         IN  rest \cup {<<c>> \o r : c \in CommunityVariants(i), r \in rest}

CommunityLists == CommunityListsFrom(1)

\* The Calico IPAM blocks cli.List can return: deleted or not, with no
\* affinity, an affinity naming a node or one naming none.
NoAffinity == <<"nil", "">>

BlockVariants ==
    [Deleted : BOOLEAN,
     Affinity : {NoAffinity, <<"host", NodeName(1)>>, <<"host", "">>},
     CIDR : {NodeCIDR(1)}]

RECURSIVE BlockListsUpTo(_)
BlockListsUpTo(n) ==
    IF n = 0 THEN {<<>>}
    ELSE LET shorter == BlockListsUpTo(n - 1)
         IN  shorter \cup {<<b>> \o r : b \in BlockVariants, r \in {x \in shorter : Len(x) = n - 1}}

BlockLists == BlockListsUpTo(MaxBlocks)

\* ipamblockmonitor.GetNodeName: the node an affinity "host:<node>" names.
GetNodeName(block) == IF block.Affinity[1] = "host" THEN block.Affinity[2] ELSE ""

\* recordIPAMBlocks without the test for a deleted block.
RECURSIVE recordIPAMBlocksWithDeleted(_, _)
recordIPAMBlocksWithDeleted(items, cidrs) ==
    IF items = <<>> THEN cidrs
    ELSE LET block == Head(items)
         IN  IF block.Affinity = NoAffinity \/ GetNodeName(block) = ""
             THEN recordIPAMBlocksWithDeleted(Tail(items), cidrs)
             ELSE recordIPAMBlocksWithDeleted(Tail(items),
                                              cidrs \cup {<<GetNodeName(block), block.CIDR>>})

\* Options.recordIPAMBlocks, lines 610-621: the loop over the blocks listed.
RECURSIVE recordIPAMBlocks(_, _)
recordIPAMBlocks(items, cidrs) ==
    IF items = <<>> THEN cidrs
    ELSE LET block == Head(items)
         IN  IF block.Deleted \/ block.Affinity = NoAffinity
             THEN recordIPAMBlocks(Tail(items), cidrs)
             ELSE IF GetNodeName(block) = ""
             THEN recordIPAMBlocks(Tail(items), cidrs)
             ELSE recordIPAMBlocks(Tail(items),
                                   cidrs \cup {<<GetNodeName(block), block.CIDR>>})

\* One call initializeControllers made and the error it returned.
InitStep(step, err) == [step |-> step, err |-> err]

\* initializeControllers, lines 458-471: with Calico the blocks are
\* recorded and the IPAMBlockMonitor is added to the manager.
RecordIPAMBlocks ==
    /\ opPC = "recordIPAMBlocks"
    /\ \E blocks \in BlockLists, fail \in {"none", "List IPAMBlocks", "ipamblockmonitor"} :
        IF fail = "List IPAMBlocks"
        THEN /\ runErr' = fail
             /\ opPC' = "exit"
             /\ initSteps' = Append(initSteps, InitStep("recordIPAMBlocks", fail))
             /\ ipamBlocks' = <<>>
             /\ UNCHANGED <<podCIDRStore, registered>>
        ELSE /\ podCIDRStore' = recordIPAMBlocks(blocks, podCIDRStore)
             /\ ipamBlocks' = blocks
             /\ initSteps' = Append(initSteps, InitStep("recordIPAMBlocks", "nil"))
             /\ IF fail = "ipamblockmonitor"
                THEN /\ runErr' = fail
                     /\ opPC' = "exit"
                     /\ UNCHANGED registered
                ELSE /\ registered' = Append(registered, "ipamblockmonitor")
                     /\ opPC' = "recordEndpoints"
                     /\ UNCHANGED runErr
    /\ UNCHANGED <<connectorVars, apiServerVars, validateVars, certHandlerVars>>
    /\ UNCHANGED <<opts, clientSecret, startSecret, completeErr, opLog, fault, store,
                   allocator, listed, initLog, intervals>>

\* types.NewEndpointFuncs: the endpoint synthesized for a node.
NewEndpoint(o, node) ==
    [Name |-> o.Cluster \o "." \o node.name,
     PublicAddresses |-> node.addresses,
     Subnets |-> node.podCIDRs,
     NodeSubnets |-> node.hostCIDRs]

\* One call of recordEndpoints on the store or the allocator.
StoreCall(call, name, cidr) == [call |-> call, name |-> name, cidr |-> cidr]

\* store.SaveEndpoint and store.SaveCommunity: the store is keyed by name.
SaveEndpoint(st, ep) ==
    [st EXCEPT !.endpoints = {e \in @ : e.Name # ep.Name} \cup {ep}]

SaveCommunity(st, c) ==
    [st EXCEPT !.communities = {x \in @ : x.Name # c.Name} \cup {c}]

\* recordEndpoints, lines 569-574: every community listed is saved, its
\* members as a set.
RECURSIVE saveCommunities(_, _, _)
saveCommunities(items, st, calls) ==
    IF items = <<>> THEN [store |-> st, calls |-> calls]
    ELSE LET c == [Name |-> Head(items).Name,
                   Members |-> {Head(items).Members[i] : i \in 1..Len(Head(items).Members)}]
         IN  saveCommunities(Tail(items), SaveCommunity(st, c),
                             Append(calls, StoreCall("SaveCommunity", c.Name, NoCIDR)))

\* recordEndpoints, lines 586-594: every subnet of an endpoint that parses is
\* recorded in the allocator, as its network.
RECURSIVE recordSubnets(_, _, _, _)
recordSubnets(name, subnets, used, calls) ==
    IF subnets = <<>> THEN [used |-> used, calls |-> calls]
    ELSE LET parsed == ParseCIDR(Head(subnets))
         IN  IF ~parsed.ok
             THEN recordSubnets(name, Tail(subnets), used, calls)
             ELSE recordSubnets(name, Tail(subnets), used \cup {parsed.net},
                                Append(calls, StoreCall("Record", name, parsed.net)))

\* recordEndpoints skipping an endpoint only when it lacks all three.
skipEndpointLackingAll(ep) ==
    Cardinality(ep.PublicAddresses) = 0 /\ Len(ep.Subnets) = 0
        /\ Cardinality(ep.NodeSubnets) = 0

\* Whether recordEndpoints skips an endpoint.
skipEndpoint(ep) ==
    Cardinality(ep.PublicAddresses) = 0 \/ Len(ep.Subnets) = 0
        \/ Cardinality(ep.NodeSubnets) = 0

\* recordEndpoints, lines 580-597: the loop over the nodes listed.
RECURSIVE recordNodes(_, _, _, _, _)
recordNodes(o, items, st, used, calls) ==
    IF items = <<>> THEN [store |-> st, used |-> used, calls |-> calls, err |-> "nil"]
    ELSE LET ep == NewEndpoint(o, Head(items))
         IN  IF skipEndpoint(ep)
             THEN recordNodes(o, Tail(items), st, used, calls)
             ELSE LET rec == recordSubnets(ep.Name, ep.Subnets, used, calls)
                  IN  recordNodes(o, Tail(items), SaveEndpoint(st, ep), rec.used,
                                  Append(rec.calls, StoreCall("SaveEndpoint", ep.Name, NoCIDR)))

\* recordEndpoints returning without edge IPAM before it saves the communities.
recordEndpointsIPAMFirst(o, nodes, communities, fail, st, used) ==
    IF fail \in {"List nodes", "List communities"}
    THEN [store |-> st, used |-> used, calls |-> <<>>, err |-> fail]
    ELSE IF ~o.EnableEdgeIPAM
    THEN [store |-> st, used |-> used, calls |-> <<>>, err |-> "nil"]
    ELSE LET saved == saveCommunities(communities, st, <<>>)
         IN  recordNodes(o, nodes, saved.store, used, saved.calls)

\* Options.recordEndpoints.
recordEndpoints(o, nodes, communities, fail, st, used) ==
    IF fail \in {"List nodes", "List communities"}
    THEN [store |-> st, used |-> used, calls |-> <<>>, err |-> fail]
    ELSE LET saved == saveCommunities(communities, st, <<>>)
         IN  IF ~o.EnableEdgeIPAM
             THEN [store |-> saved.store, used |-> used, calls |-> saved.calls, err |-> "nil"]
             ELSE recordNodes(o, nodes, saved.store, used, saved.calls)

\* initializeControllers going on although recordEndpoints failed.
afterRecordEndpointsIgnoringError(err) == "AddToManager"

\* initializeControllers, lines 474-477: an error of recordEndpoints is
\* returned, and nothing further is done.
afterRecordEndpoints(err) == IF err = "nil" THEN "AddToManager" ELSE "exit"

\* initializeControllers, lines 473-477.
RecordEndpoints ==
    /\ opPC = "recordEndpoints"
    /\ \E nodes \in NodeLists, communities \in CommunityLists,
          fail \in {"none", "List nodes", "List communities"} :
        LET r == recordEndpoints(opts, nodes, communities, fail, store, allocator)
        IN  /\ store' = r.store
            /\ allocator' = r.used
            /\ initLog' = r.calls
            /\ listed' = [nodes |-> IF fail = "List nodes" THEN <<>> ELSE nodes,
                          communities |-> IF fail = "none" THEN communities ELSE <<>>]
            /\ initSteps' = Append(initSteps, InitStep("recordEndpoints", r.err))
            /\ runErr' = IF r.err = "nil" THEN runErr ELSE r.err
            /\ opPC' = afterRecordEndpoints(r.err)
    /\ ipamBlocks' = <<>>
    /\ UNCHANGED <<connectorVars, apiServerVars, validateVars, certHandlerVars>>
    /\ UNCHANGED <<opts, clientSecret, startSecret, completeErr, opLog, fault, podCIDRStore,
                   registered, intervals>>

Range(s) == {s[i] : i \in 1..Len(s)}

\* initializeControllers adding the LocalClusterReporter whatever the role.
controllersReporterEverywhere(o) ==
    <<"connectorctl", "agentctl", "cmmctl">>
        \o (IF o.EnableProxy THEN <<"proxyctl">> ELSE <<>>)
        \o <<"clusterctl", "LocalClusterReporter">>
        \o (IF o.ClusterRole = RoleHost
            THEN <<>>
            ELSE <<"LoadEndpointsAndCommunities", "ExportEndpoints">>)

\* initializeControllers, lines 479-552: the controllers and routines in the
\* order they are added to the manager.
controllers(o) ==
    <<"connectorctl", "agentctl", "cmmctl">>
        \o (IF o.EnableProxy THEN <<"proxyctl">> ELSE <<>>)
        \o <<"clusterctl">>
        \o (IF o.ClusterRole = RoleHost
            THEN <<"LocalClusterReporter">>
            ELSE <<"LoadEndpointsAndCommunities", "ExportEndpoints">>)

\* The interval a routine is built with: SyncInterval of the
\* LocalClusterReporter (line 522), the first argument of
\* LoadEndpointsAndCommunities (line 532) and of ExportEndpoints (line 542).
\* The controllers take no interval.
routineIntervals ==
    {<<"LocalClusterReporter", 10 * Second>>,
     <<"LoadEndpointsAndCommunities", 10 * Second>>,
     <<"ExportEndpoints", 10 * Second>>}

\* The controllers added before the one that fails.
RECURSIVE addedBefore(_, _)
addedBefore(order, fail) ==
    IF order = <<>> \/ Head(order) = fail THEN <<>>
    ELSE <<Head(order)>> \o addedBefore(Tail(order), fail)

\* initializeControllers, lines 479-552. The first failure ends the
\* function with its error; the member routines dereference opts.APIClient.
AddControllers ==
    /\ opPC = "AddToManager"
    /\ \E fail \in {"none"} \cup Range(controllers(opts)) :
        LET added == addedBefore(controllers(opts), fail)
        IN  /\ registered' = registered \o added
            /\ intervals' = {ri \in routineIntervals : ri[1] \in Range(added)}
            /\ IF opts.ClusterRole = RoleMember /\ ~opts.APIClient.set
                    /\ Len(added) >= Len(controllers(opts)) - 2
               THEN /\ opPC' = "panic"
                    /\ UNCHANGED runErr
               ELSE IF fail = "none"
               THEN /\ opPC' = "running"
                    /\ UNCHANGED runErr
               ELSE /\ opPC' = "exit"
                    /\ runErr' = fail
    /\ UNCHANGED <<connectorVars, apiServerVars, validateVars, certHandlerVars>>
    /\ UNCHANGED <<opts, clientSecret, startSecret, completeErr, opLog, fault, store,
                   allocator, podCIDRStore, listed, initLog, initSteps, ipamBlocks>>

OperatorNext ==
    \/ Complete
    \/ RunManager
    \/ RecordIPAMBlocks
    \/ RecordEndpoints
    \/ AddControllers

(***************************************************************************)
(* runAPIServer, the runnable that serves the federation API in host role. *)
(***************************************************************************)

\* The most requests clients send to the API server.
MaxRequests == 4

\* The manager starts the runnable with its context.
APIServerStart ==
    /\ ctxDone = FALSE
    /\ apiPC = "start"
    /\ apiErr = "unset"
    /\ srvPC = "unstarted"
    /\ srvErr = "unset"
    /\ listening = FALSE
    /\ accepted = 0
    /\ responded = 0

\* runAPIServer, lines 431-439: errChan is made and the goroutine started.
RunAPIServer ==
    /\ apiPC = "start"
    /\ apiPC' = "select"
    /\ srvPC' = "ListenAndServeTLS"
    /\ UNCHANGED <<ctxDone, apiErr, srvErr, listening, accepted, responded>>
    /\ UNCHANGED <<connectorVars, managerVars, validateVars, certHandlerVars>>

\* Line 436: the goroutine sends every error but http.ErrServerClosed.
afterServe(err) == IF err # "ErrServerClosed" THEN "send" ELSE "done"

\* Line 435: ListenAndServeTLS opens the listener and serves, or fails to
\* listen or to load the certificate.
ListenAndServeTLS ==
    /\ srvPC = "ListenAndServeTLS"
    /\ \E res \in {"ok", "listen error"} :
        IF res = "ok"
        THEN /\ listening' = TRUE
             /\ srvPC' = "Serve"
             /\ UNCHANGED srvErr
        ELSE /\ srvErr' = res
             /\ srvPC' = afterServe(res)
             /\ UNCHANGED listening
    /\ UNCHANGED <<ctxDone, apiPC, apiErr, accepted, responded>>
    /\ UNCHANGED <<connectorVars, managerVars, validateVars, certHandlerVars>>

\* The server accepts a request of a client while it listens.
Accept ==
    /\ srvPC = "Serve"
    /\ listening
    /\ accepted < MaxRequests
    /\ accepted' = accepted + 1
    /\ UNCHANGED <<ctxDone, apiPC, apiErr, srvPC, srvErr, listening, responded>>
    /\ UNCHANGED <<connectorVars, managerVars, validateVars, certHandlerVars>>

\* The server responds to a request it has accepted.
Respond ==
    /\ srvPC = "Serve"
    /\ responded < accepted
    /\ responded' = responded + 1
    /\ UNCHANGED <<ctxDone, apiPC, apiErr, srvPC, srvErr, listening, accepted>>
    /\ UNCHANGED <<connectorVars, managerVars, validateVars, certHandlerVars>>

\* The listener fails: ListenAndServeTLS closes it and returns the error.
\* It returns http.ErrServerClosed only after Shutdown or Close, which
\* nothing calls.
ServeError ==
    /\ srvPC = "Serve"
    /\ listening' = FALSE
    /\ srvErr' = "accept error"
    /\ srvPC' = afterServe("accept error")
    /\ UNCHANGED <<ctxDone, apiPC, apiErr, accepted, responded>>
    /\ UNCHANGED <<connectorVars, managerVars, validateVars, certHandlerVars>>

\* Lines 442-446: the select receives the error the goroutine sends on the
\* unbuffered errChan, and runAPIServer returns it.
SelectErrChan ==
    /\ apiPC = "select"
    /\ srvPC = "send"
    /\ apiErr' = srvErr
    /\ apiPC' = "returned"
    /\ srvPC' = "done"
    /\ UNCHANGED <<ctxDone, srvErr, listening, accepted, responded>>
    /\ UNCHANGED <<connectorVars, managerVars, validateVars, certHandlerVars>>

\* Lines 447-451: the select finds the context done, and runAPIServer
\* returns ctx.Err().
SelectCtxDone ==
    /\ apiPC = "select"
    /\ ctxDone
    /\ apiErr' = "context canceled"
    /\ apiPC' = "returned"
    /\ UNCHANGED <<ctxDone, srvPC, srvErr, listening, accepted, responded>>
    /\ UNCHANGED <<connectorVars, managerVars, validateVars, certHandlerVars>>

\* The manager cancels the context of its runnables.
Cancel ==
    /\ apiPC # "unstarted"
    /\ ~ctxDone
    /\ ctxDone' = TRUE
    /\ UNCHANGED <<apiPC, apiErr, srvPC, srvErr, listening, accepted, responded>>
    /\ UNCHANGED <<connectorVars, managerVars, validateVars, certHandlerVars>>

APIServerNext ==
    \/ RunAPIServer
    \/ ListenAndServeTLS
    \/ Accept
    \/ Respond
    \/ ServeError
    \/ SelectErrChan
    \/ SelectCtxDone
    \/ Cancel

(***************************************************************************)
(* Options.Validate.                                                       *)
(***************************************************************************)

\* The longest leader-election duration considered.
MaxDuration == 14

\* The longest cluster name considered.
MaxNameLen == 3

\* regexp.MatchString for dns1123Reg,
\* ^[a-z0-9]([-a-z0-9]*[a-z0-9])?(\.[a-z0-9]([-a-z0-9]*[a-z0-9])?)*$
\* on a string given as a sequence of characters; "a" stands for the
\* lowercase letters and "0" for the digits.
AlphaNum == {"a", "0"}

\* The positions after i where [a-z0-9]([-a-z0-9]*[a-z0-9])? can end when
\* it starts at i.
labelEnds(s, i) ==
    {j \in i..Len(s) :
        /\ s[i] \in AlphaNum
        /\ s[j] \in AlphaNum
        /\ \A k \in i..j : s[k] \in AlphaNum \cup {"-"}}

\* matchFrom ending a label on any character of the class [-a-z0-9].
RECURSIVE matchFromLoose(_, _)
matchFromLoose(s, i) ==
    \E j \in {k \in i..Len(s) : s[i] \in AlphaNum
                                  /\ \A m \in i..k : s[m] \in AlphaNum \cup {"-"}} :
        \/ j = Len(s)
        \/ j < Len(s) /\ s[j + 1] = "." /\ matchFromLoose(s, j + 2)

\* Whether the rest of s from i on matches label(\.label)*$.
RECURSIVE matchFrom(_, _)
matchFrom(s, i) ==
    \E j \in labelEnds(s, i) :
        \/ j = Len(s)
        \/ j < Len(s) /\ s[j + 1] = "." /\ matchFrom(s, j + 2)

MatchString(s) == matchFrom(s, 1)

\* fileExists: os.Stat on the file, false when it does not exist and else
\* whether it is no directory; on any other error of Stat info is nil and
\* info.IsDir() panics.
fileExists(file) ==
    IF file = "missing" THEN "false"
    ELSE IF file = "denied" THEN "panic"
    ELSE IF file = "dir" THEN "false"
    ELSE "true"

\* net.IPNet.Contains: the address lies in the network.
Contains(subnet, ip) == ip - (ip % 2^(AddrBits - subnet[2])) = subnet[1]

\* Validate, line 343: whether EdgePodCIDR and a connector subnet overlap.
overlapsOneWay(edge, s) ==
    Contains(ParseCIDR(edge).net, ParseCIDR(s).ip)

overlaps(edge, s) ==
    \/ Contains(ParseCIDR(edge).net, ParseCIDR(s).ip)
    \/ Contains(ParseCIDR(s).net, ParseCIDR(edge).ip)

\* time.Duration(JitterFactor*float64(retryPeriod)) with JitterFactor 1.2:
\* the product, truncated to a whole duration.
jitterless(retryPeriod) == retryPeriod

jitter(retryPeriod) == (12 * retryPeriod) \div 10

\* Validate, lines 356-375.
validateLeaderElection(o) ==
    IF o.LeaseDuration <= o.RenewDeadline
    THEN "leaseDuration must be greater than renewDeadline"
    ELSE IF o.RenewDeadline <= jitter(o.RetryPeriod)
    THEN "renewDeadline must be greater than retryPeriod*JitterFactor"
    ELSE IF o.LeaseDuration < Second
    THEN "leaseDuration must be greater than 1 second"
    ELSE IF o.RenewDeadline < Second
    THEN "renewDeadline must be greater than 1 second"
    ELSE IF o.RetryPeriod < Second
    THEN "retryPeriod must be greater than 1 second"
    ELSE "nil"

\* Validate, lines 349-354.
validatePolicy(o) ==
    IF o.ImagePullPolicy \notin {"Always", "IfNotPresent", "Never"}
    THEN "not supported image pull policy"
    ELSE validateLeaderElection(o)

\* Validate, lines 335-347.
validateEdgePodCIDR(o) ==
    IF ~o.EnableEdgeIPAM THEN validatePolicy(o)
    ELSE IF ~ParseCIDR(o.EdgePodCIDR).ok THEN "invalid edge pod cidr"
    ELSE IF \E i \in 1..Len(o.ProvidedSubnets) : overlaps(o.EdgePodCIDR, o.ProvidedSubnets[i])
    THEN "EdgePodCIDR is overlaped with connector's subnets"
    ELSE validatePolicy(o)

\* Validate, lines 329-333.
validateSubnets(o) ==
    IF \E i \in 1..Len(o.ProvidedSubnets) : ~ParseCIDR(o.ProvidedSubnets[i]).ok
    THEN "invalid subnet"
    ELSE validateEdgePodCIDR(o)

\* Validate requiring no connector labels.
validateLabelsEdgeOnly(o) ==
    IF Cardinality(o.EdgeLabels) = 0 THEN "edge labels is needed"
    ELSE IF Cardinality(o.PublicAddresses) = 0 THEN "connector public addresses is needed"
    ELSE validateSubnets(o)

\* Validate, lines 317-327.
validateLabels(o) ==
    IF Cardinality(o.EdgeLabels) = 0 THEN "edge labels is needed"
    ELSE IF Cardinality(o.ConnectorLabels) = 0 THEN "connector labels is needed"
    ELSE IF Cardinality(o.PublicAddresses) = 0 THEN "connector public addresses is needed"
    ELSE validateSubnets(o)

\* Validate, lines 299-315.
validateRole(o) ==
    IF o.ClusterRole # RoleHost /\ o.ClusterRole # RoleMember THEN "unknown cluster role"
    ELSE IF o.ClusterRole = RoleMember /\ o.InitToken = ""
    THEN "initialization token is needed when cluster role is member"
    ELSE IF o.ClusterRole # RoleHost THEN validateLabels(o)
    ELSE IF fileExists(o.APIServerKeyFile) = "panic" THEN "panic"
    ELSE IF fileExists(o.APIServerKeyFile) = "false" THEN "api server key file doesnt' exist"
    ELSE IF fileExists(o.APIServerCertFile) = "panic" THEN "panic"
    ELSE IF fileExists(o.APIServerCertFile) = "false"
    THEN "api server certificate file doesnt' exist"
    ELSE validateLabels(o)

\* Options.Validate.
validate(o) ==
    IF Len(o.Cluster) = 0 THEN "a cluster name is required"
    ELSE IF ~MatchString(o.Cluster) THEN "invalid cluster name"
    ELSE validateRole(o)

\* The strings of at most n of the characters "a", "0", "A", "-" and ".".
RECURSIVE Names(_)
Names(n) ==
    IF n = 0 THEN {<<>>}
    ELSE LET shorter == Names(n - 1)
         IN  shorter \cup {Append(x, c) : x \in {y \in shorter : Len(y) = n - 1},
                                          c \in {"a", "0", "A", "-", "."}}

\* The CIDR strings: every address with every prefix length, and one that
\* does not parse.
CIDRs == ((0..(2^AddrBits - 1)) \X (0..AddrBits)) \cup {BadCIDR}

\* Options that pass Validate: the defaults of AddFlags with the required
\* flags given.
ValidOptions ==
    [Cluster |-> <<"a">>, ClusterRole |-> RoleHost, InitToken |-> "",
     APIServerKeyFile |-> "file", APIServerCertFile |-> "file",
     EdgeLabels |-> {"node-role.kubernetes.io/edge"}, ConnectorLabels |-> {"app"},
     PublicAddresses |-> {"10.20.8.28"}, ProvidedSubnets |-> <<>>,
     EnableEdgeIPAM |-> FALSE, EdgePodCIDR |-> NoCIDR, ImagePullPolicy |-> "IfNotPresent",
     LeaseDuration |-> Second + 4, RenewDeadline |-> Second + 3, RetryPeriod |-> Second]

\* The lists of at most two connector subnets.
SubnetLists == {<<>>} \cup {<<a>> : a \in CIDRs} \cup {<<a, b>> : a \in CIDRs, b \in CIDRs}

\* The options Validate is called on differ from valid ones in the cluster
\* name; in the leader-election durations; with edge IPAM, in the edge pod
\* CIDR and the connector subnets; or in role, token, files, labels,
\* addresses, image pull policy and in whether the CIDRs parse.
ValidateStart ==
    /\ vErr = "unset"
    /\ \/ \E n \in Names(MaxNameLen) : vOpts = [ValidOptions EXCEPT !.Cluster = n]
       \/ \E l \in 0..MaxDuration, d \in 0..MaxDuration, r \in 0..MaxDuration :
              vOpts = [ValidOptions EXCEPT !.LeaseDuration = l, !.RenewDeadline = d,
                                           !.RetryPeriod = r]
       \/ \E edge \in CIDRs \cup {NoCIDR}, subnets \in SubnetLists :
              vOpts = [ValidOptions EXCEPT !.EnableEdgeIPAM = TRUE, !.EdgePodCIDR = edge,
                                           !.ProvidedSubnets = subnets]
       \/ \E role \in {RoleHost, RoleMember, "guest"}, token \in {"", "valid-token"},
             key \in {"file", "missing", "dir", "denied"}, cert \in {"file", "missing"},
             edgeLabels \in {{}, ValidOptions.EdgeLabels},
             connectorLabels \in {{}, ValidOptions.ConnectorLabels},
             addresses \in {{}, ValidOptions.PublicAddresses},
             subnets \in {<<>>, <<BadCIDR>>, <<<<0, AddrBits>>>>},
             ipam \in BOOLEAN, edge \in {NoCIDR, BadCIDR, <<1, AddrBits>>},
             policy \in {"Always", "IfNotPresent", "Never", "Sometimes", ""} :
              vOpts = [ValidOptions EXCEPT !.ClusterRole = role, !.InitToken = token,
                                           !.APIServerKeyFile = key,
                                           !.APIServerCertFile = cert,
                                           !.EdgeLabels = edgeLabels,
                                           !.ConnectorLabels = connectorLabels,
                                           !.PublicAddresses = addresses,
                                           !.ProvidedSubnets = subnets,
                                           !.EnableEdgeIPAM = ipam, !.EdgePodCIDR = edge,
                                           !.ImagePullPolicy = policy]

\* main calls opts.Validate().
Validate ==
    /\ vErr = "unset"
    /\ vErr' = validate(vOpts)
    /\ UNCHANGED vOpts
    /\ UNCHANGED <<connectorVars, managerVars, apiServerVars, certHandlerVars>>

ValidateNext ==
    \/ Validate

(***************************************************************************)
(* certHandler of the agent controller: the TLS secret of a node's agent.  *)
(***************************************************************************)

\* The CA certificate the cert manager holds.
CACert == "fabedge CA"

\* certutil.ExtKeyUsagesServerAndClient
ExtKeyUsagesServerAndClient == {"ServerAuth", "ClientAuth"}

\* getCertSecretName: the name of the TLS secret of a node's agent.
getCertSecretName(nodeName) == "fabedge-agent-" \o nodeName \o "-tls"

CertSecretNames == {getCertSecretName(NodeName(i)) : i \in 1..MaxNodes}

\* A TLS secret: its ca.crt, and of its tls.crt the issuer, the CN, the
\* extended key usages and how far the validity has run.
NoCertSecret ==
    [exists |-> FALSE, ca |-> "",
     cert |-> [issuer |-> "", cn |-> "", usages |-> {}, validity |-> "expired"]]

\* certManager.VerifyCertInPEM: the certificate is signed by the CA, is in
\* its validity and allows the usages.
VerifyCertInPEM(cert, usages) ==
    /\ cert.issuer = CACert
    /\ cert.validity # "expired"
    /\ usages \subseteq cert.usages

\* The secret certHandler builds for a node: a key generated locally and a
\* certificate signed by the cert manager for the endpoint ID of the node.
buildCertAndKeySecret(nodeName) ==
    [exists |-> TRUE, ca |-> CACert,
     cert |-> [issuer |-> CACert, cn |-> "C=CN, O=fabedge.io, CN=" \o nodeName,
               usages |-> ExtKeyUsagesServerAndClient, validity |-> "valid"]]

\* certHandler.Do leaving any secret it finds as it is.
certDoKeepExisting(secrets, nodeName, fail) ==
    LET name == getCertSecretName(nodeName)
    IN  IF fail = "Get" THEN [secrets |-> secrets, err |-> fail]
        ELSE IF secrets[name].exists THEN [secrets |-> secrets, err |-> "nil"]
        ELSE IF fail \in {"SignCert", "Create"} THEN [secrets |-> secrets, err |-> fail]
        ELSE [secrets |-> [secrets EXCEPT ![name] = buildCertAndKeySecret(nodeName)],
              err |-> "nil"]

\* certHandler.Do: a new certificate is issued when the secret is missing,
\* when its certificate does not verify or when it expires soon.
certDo(secrets, nodeName, fail) ==
    LET name == getCertSecretName(nodeName)
        issued == [secrets EXCEPT ![name] = buildCertAndKeySecret(nodeName)]
    IN  IF fail = "Get" THEN [secrets |-> secrets, err |-> fail]
        ELSE IF ~secrets[name].exists
        THEN IF fail \in {"SignCert", "Create"} THEN [secrets |-> secrets, err |-> fail]
             ELSE [secrets |-> issued, err |-> "nil"]
        ELSE IF /\ VerifyCertInPEM(secrets[name].cert, ExtKeyUsagesServerAndClient)
                /\ secrets[name].cert.validity # "expiring"
        THEN [secrets |-> secrets, err |-> "nil"]
        ELSE IF fail \in {"SignCert", "Update"} THEN [secrets |-> secrets, err |-> fail]
        ELSE [secrets |-> issued, err |-> "nil"]

\* certHandler.Undo deleting a secret named as the node is.
certUndoByNodeName(secrets, nodeName, fail) ==
    IF fail = "Delete" THEN [secrets |-> secrets, err |-> fail]
    ELSE [secrets |-> [n \in DOMAIN secrets |-> IF n = nodeName THEN NoCertSecret
                                                               ELSE secrets[n]],
          err |-> "nil"]

\* certHandler.Undo: the secret of the node is deleted; that there is none
\* is no error.
certUndo(secrets, nodeName, fail) ==
    IF fail = "Delete" THEN [secrets |-> secrets, err |-> fail]
    ELSE [secrets |-> [n \in DOMAIN secrets |-> IF n = getCertSecretName(nodeName)
                                                THEN NoCertSecret ELSE secrets[n]],
          err |-> "nil"]

\* An operation on the secrets: its node, its error and the secret of the
\* node as it was before.
Op(op, nodeName, err, prior) == [op |-> op, node |-> nodeName, err |-> err, prior |-> prior]

CertHandlerStart ==
    /\ certSecrets = [n \in CertSecretNames |-> NoCertSecret]
    /\ lastOp = Op("none", "", "nil", NoCertSecret)

\* The agent controller reconciles a node: handler.Do(ctx, node).
CertDo ==
    /\ \E i \in 1..MaxNodes, fail \in {"none", "Get", "SignCert", "Create", "Update"} :
        LET r == certDo(certSecrets, NodeName(i), fail)
        IN  /\ certSecrets' = r.secrets
            /\ lastOp' = Op("Do", NodeName(i), r.err, certSecrets[getCertSecretName(NodeName(i))])
    /\ UNCHANGED <<connectorVars, managerVars, apiServerVars, validateVars>>

\* The agent controller finds a node gone: handler.Undo(ctx, nodeName).
CertUndo ==
    /\ \E i \in 1..MaxNodes, fail \in {"none", "Delete"} :
        LET r == certUndo(certSecrets, NodeName(i), fail)
        IN  /\ certSecrets' = r.secrets
            /\ lastOp' = Op("Undo", NodeName(i), r.err,
                            certSecrets[getCertSecretName(NodeName(i))])
    /\ UNCHANGED <<connectorVars, managerVars, apiServerVars, validateVars>>

\* Time passes: a certificate comes to expire soon, then expires.
CertAge ==
    /\ \E n \in CertSecretNames :
        /\ certSecrets[n].exists
        /\ certSecrets[n].cert.validity # "expired"
        /\ certSecrets' = [certSecrets EXCEPT ![n].cert.validity =
                               IF @ = "valid" THEN "expiring" ELSE "expired"]
        /\ lastOp' = Op("Age", "", "nil", certSecrets[n])
    /\ UNCHANGED <<connectorVars, managerVars, apiServerVars, validateVars>>

\* tls.crt and tls.key of a secret are replaced by a certificate the cert
\* manager signed for the node name with no extended key usage.
CertReplace ==
    /\ \E i \in 1..MaxNodes :
        LET n == getCertSecretName(NodeName(i))
        IN  /\ certSecrets[n].exists
            /\ certSecrets' = [certSecrets EXCEPT ![n].cert =
                                   [issuer |-> CACert, cn |-> NodeName(i), usages |-> {},
                                    validity |-> "expiring"]]
            /\ lastOp' = Op("Update", NodeName(i), "nil", certSecrets[n])
    /\ UNCHANGED <<connectorVars, managerVars, apiServerVars, validateVars>>

CertHandlerNext ==
    \/ CertDo
    \/ CertUndo
    \/ CertAge
    \/ CertReplace

\* The connector and the operator are two programs, and runAPIServer is a
\* runnable of its own: each specification runs one of them and leaves the
\* state of the others at rest.
ConnectorIdle ==
    /\ mainPC = "exited"
    /\ pc = [g \in Goroutines |-> "unstarted"]
    /\ log = [g \in Goroutines |-> <<>>]
    /\ routes = FALSE
    /\ snat = FALSE
    /\ tunnelsActive = FALSE
    /\ tick = FALSE
    /\ fileEvent = FALSE
    /\ shutdownErrs = {}

ManagerIdle ==
    /\ opPC = "exit"
    /\ opts \in {o \in StartOptions : o.ClusterRole = RoleHost /\ o.CNIType = CNIFlannel
                                       /\ o.EdgePodCIDR = NoCIDR /\ o.InitToken = ""
                                       /\ ~o.EnableProxy}
    /\ clientSecret = NoSecret
    /\ startSecret = NoSecret
    /\ completeErr = "unset"
    /\ opLog = <<>>
    /\ fault = "none"
    /\ store = NoStore
    /\ allocator = {}
    /\ podCIDRStore = {}
    /\ listed = NoListing
    /\ initLog = <<>>
    /\ initSteps = <<>>
    /\ runErr = "unset"
    /\ registered = <<>>
    /\ intervals = {}
    /\ ipamBlocks = <<>>

APIServerIdle ==
    /\ ctxDone = FALSE
    /\ apiPC = "unstarted"
    /\ apiErr = "unset"
    /\ srvPC = "unstarted"
    /\ srvErr = "unset"
    /\ listening = FALSE
    /\ accepted = 0
    /\ responded = 0

ValidateIdle ==
    /\ vOpts = ValidOptions
    /\ vErr = "unset"

CertHandlerIdle ==
    /\ certSecrets = [n \in CertSecretNames |-> NoCertSecret]
    /\ lastOp = Op("none", "", "nil", NoCertSecret)

ConnectorInit ==
    ConnectorStart /\ ManagerIdle /\ APIServerIdle /\ ValidateIdle /\ CertHandlerIdle
OperatorInit ==
    OperatorStart /\ ConnectorIdle /\ APIServerIdle /\ ValidateIdle /\ CertHandlerIdle
APIServerInit ==
    APIServerStart /\ ConnectorIdle /\ ManagerIdle /\ ValidateIdle /\ CertHandlerIdle
ValidateInit ==
    ValidateStart /\ ConnectorIdle /\ ManagerIdle /\ APIServerIdle /\ CertHandlerIdle
CertHandlerInit ==
    CertHandlerStart /\ ConnectorIdle /\ ManagerIdle /\ APIServerIdle /\ ValidateIdle

SpecConnector == ConnectorInit /\ [][ConnectorNext]_vars
SpecOperator == OperatorInit /\ [][OperatorNext]_vars
SpecAPIServer == APIServerInit /\ [][APIServerNext]_vars
SpecValidate == ValidateInit /\ [][ValidateNext]_vars
SpecCertHandler == CertHandlerInit /\ [][CertHandlerNext]_vars

\* The Go scheduler runs every goroutine that can take a step, and a
\* request accepted is responded to; when the context is cancelled, when
\* a client connects and when the listener fails are up to the environment.
SpecAPIServerFair ==
    /\ SpecAPIServer
    /\ WF_vars(RunAPIServer)
    /\ WF_vars(ListenAndServeTLS)
    /\ WF_vars(Respond)
    /\ WF_vars(SelectErrChan)
    /\ WF_vars(SelectCtxDone)

(***************************************************************************)
(* Claims about the connector.                                             *)
(***************************************************************************)

\* The names of the calls a goroutine's current task execution has made.
Calls(g) == {log[g][i].call : i \in 1..Len(log[g])}

\* The goroutines inside a call to the tunnel manager (the IPsec daemon socket).
tmUsers == {g \in Goroutines : pc[g] \in {"syncConnections", "IsActive"}}

\* A goroutine is inside a task: past its first call and not yet at its end.
InFlight(g) == pc[g] \notin {"unstarted", "waitTick", "watch"} \cup {tasks[i] : i \in 1..Len(tasks)}

\* SIGINT or SIGTERM has been delivered.
Signalled == mainPC \in {"CleanRoutes", "CleanSNatIPTablesRules", "exited"}

\* C1: once Manager.Start has returned after a signal, with both cleanup
\* calls of gracefulShutdown successful, neither the routes to the peer
\* subnets nor the SNAT rules are present, whatever the two task goroutines
\* did meanwhile.
C1_CleanAtExit ==
    (mainPC = "exited" /\ shutdownErrs = {}) => (~routes /\ ~snat)

\* C2: at no time are two goroutines inside a call to the tunnel manager
\* (syncConnections of the tunnel task, IsActive of the route task).
C2_SocketNeverConcurrent == Cardinality(tmUsers) <= 1

\* C3: after the signal the periodic loop starts no round at a tick, and
\* when the process ends no task of the loop is cut in flight.
C3_StopObservedAtTick ==
    [][/\ (Signalled /\ pc["runTasks"] = "waitTick") => pc'["runTasks"] = "waitTick"
       /\ (mainPC # "exited" /\ mainPC' = "exited") => ~InFlight("runTasks")]_vars

\* The tunnel task of g has just ended and its syncConnections succeeded.
TunnelTaskSynced(g) ==
    /\ pc[g] = "routeTaskFn"
    /\ Len(log[g]) >= 1
    /\ log[g][1] = Call("syncConnections", "ok")

\* The execution logged the broadcast of the prefixes it got.
BroadcastsPrefixes(g) ==
    \E i, j \in 1..Len(log[g]) :
        /\ i < j
        /\ log[g][i].call = "GetConnectorPrefixes"
        /\ log[g][j] = CallWith("Broadcast", "payload", log[g][i].cp)

\* C7 as stated: every tunnel task execution whose syncConnections succeeds
\* broadcasts the current connector prefixes within that execution.
C7_AlwaysBroadcasts ==
    \A g \in Goroutines : TunnelTaskSynced(g) => BroadcastsPrefixes(g)

\* C7 amended: every tunnel task execution whose syncConnections succeeds
\* and whose GetConnectorPrefixes returns, without error, a non-empty local
\* and a non-empty remote prefix list calls Broadcast within that execution;
\* the payload is the JSON of those prefixes, or nil when Marshal failed.
C7_BroadcastsWhenPrefixes ==
    \A g \in Goroutines :
        (/\ TunnelTaskSynced(g)
         /\ Len(log[g]) >= 2
         /\ log[g][2].call = "GetConnectorPrefixes"
         /\ log[g][2].res = "ok"
         /\ log[g][2].cp.LocalPrefixes # {}
         /\ log[g][2].cp.RemotePrefixes # {})
        => /\ Len(log[g]) = 4
           /\ log[g][3].call = "Marshal"
           /\ log[g][4] = IF log[g][3].res = "ok"
                          THEN CallWith("Broadcast", "payload", log[g][2].cp)
                          ELSE Call("Broadcast", "nil")

\* A tunnel task execution has ended with the broadcast of its prefixes.
C7_Witness ==
    \E g \in Goroutines : TunnelTaskSynced(g) /\ BroadcastsPrefixes(g)

\* C8: an execution of the route task calls SyncRoutes exactly when IsActive
\* returned true, CleanRoutes exactly when it returned false, and after an
\* error of IsActive calls neither and ends with the routes as they were.
C8_RouteTask ==
    [][\A g \in Goroutines :
        (pc[g] # "ipsetTaskFn" /\ pc'[g] = "ipsetTaskFn") =>
            /\ log'[g][1].call = "IsActive"
            /\ ("SyncRoutes" \in Calls(g)') <=> (log'[g][1].res = "true")
            /\ ("CleanRoutes" \in Calls(g)') <=> (log'[g][1].res = "false")
            /\ log'[g][1].res = "err" => (Len(log'[g]) = 1 /\ routes' = routes)]_vars

\* Route task executions of each kind have ended: one after an error of
\* IsActive, one that installed the routes.
C8_Witness ==
    /\ pc["runTasks"] = "ipsetTaskFn"
    /\ log["runTasks"] = <<Call("IsActive", "true"), Call("SyncRoutes", "ok")>>
    /\ pc["onConfigFileChange"] = "ipsetTaskFn"
    /\ log["onConfigFileChange"] = <<Call("IsActive", "err")>>

(***************************************************************************)
(* Claims about the operator.                                              *)
(***************************************************************************)

\* Call a was made, and call b after it.
Before(s, a, b) == \E i, j \in 1..Len(s) : i < j /\ s[i] = a /\ s[j] = b

\* Complete has returned, and in it initAPIClient has run.
InitAPIClientRan == opPC # "Complete" /\ "Get" \in Range(opLog)

\* The faults that make initAPIClient fail.
InitAPIClientFaults == {"Get", "NewCertRequest", "SignCertByToken", "Create", "NewClient"}

\* C4: a member that starts with a client secret whose certificate has
\* expired and with a valid init token, and whose initAPIClient meets no
\* outside failure, enrolls by token and builds its API client with the
\* fresh certificate.
C4_ExpiredCertReenrolls ==
    (/\ InitAPIClientRan
     /\ startSecret.exists /\ startSecret.keyPair /\ startSecret.expired
     /\ TokenValid(opts.InitToken)
     /\ fault \notin InitAPIClientFaults)
    => /\ "SignCertByToken" \in Range(opLog)
       /\ opts.APIClient.set
       /\ opts.APIClient.cert.enrolled
       /\ ~opts.APIClient.cert.expired

\* C5: initAPIClient enrolls by token exactly when the secret api-client-tls
\* is not found. Found: no certificate request, no token request, nothing
\* created. Not found: the request with CN <cluster>.fabedge-client is signed
\* by token and the certificate persisted as that secret before the API
\* client is built with it. When Get fails otherwise, or signing or
\* persisting fails, the error is returned, no call follows the failed one,
\* the secret is as it was and APIClient is unset.
C5_EnrollIffNoSecret ==
    InitAPIClientRan =>
        /\ ("NewCertRequest" \in Range(opLog)) <=> (~startSecret.exists /\ fault # "Get")
        /\ "SignCertByToken" \in Range(opLog) => ~startSecret.exists
        /\ startSecret.exists => (clientSecret = startSecret /\ "Create" \notin Range(opLog))
        /\ (~startSecret.exists /\ opts.APIClient.set) =>
               /\ Before(opLog, "SignCertByToken", "Create")
               /\ Before(opLog, "Create", "NewClient")
               /\ clientSecret.exists
               /\ clientSecret.name = ClientTLSSecretName
               /\ clientSecret.cn = opts.Cluster \o ".fabedge-client"
               /\ clientSecret.enrolled
               /\ opts.APIClient.cert = clientSecret
        /\ (\/ fault = "Get"
            \/ (~startSecret.exists /\ fault \in {"SignCertByToken", "Create"})
            \/ (~startSecret.exists /\ fault # "NewCertRequest" /\ ~TokenValid(opts.InitToken))) =>
               /\ completeErr \in {"Get", "SignCertByToken", "Create"}
               /\ opLog[Len(opLog)] = completeErr
               /\ clientSecret = startSecret
               /\ ~opts.APIClient.set

\* A member without the secret has enrolled and built its API client, and
\* Complete has returned.
C5_Witness ==
    /\ InitAPIClientRan
    /\ ~startSecret.exists
    /\ opts.APIClient.set
    /\ clientSecret.enrolled


\* An endpoint that lacks a public address, a subnet or a node subnet.
Incomplete(ep) == ep.PublicAddresses = {} \/ ep.Subnets = <<>> \/ ep.NodeSubnets = {}

\* The names recordEndpoints passed to SaveEndpoint or to the allocator.
Recorded == {initLog[i].name : i \in {j \in 1..Len(initLog) :
                                        initLog[j].call \in {"SaveEndpoint", "Record"}}}

\* recordEndpoints has run to its end.
RecordEndpointsRan == opPC \in {"AddToManager", "running"} \/ "connectorctl" \in Range(registered)

\* The nodes listed whose endpoint lacks one of the three.
SkippedNodes == {i \in 1..Len(listed.nodes) : Lacks(listed.nodes[i]) > 0}

\* C9: every endpoint in the store has a public address, a subnet and a
\* node subnet, and once recordEndpoints has run no node whose endpoint
\* lacks one of them was passed to SaveEndpoint or to the allocator's Record.
C9_StoredEndpointsComplete ==
    /\ \A ep \in store.endpoints : ~Incomplete(ep)
    /\ RecordEndpointsRan =>
          \A i \in SkippedNodes : opts.Cluster \o "." \o listed.nodes[i].name \notin Recorded

\* recordEndpoints has stored one node's endpoint and skipped another that
\* lacks one of the three only.
C9_Witness ==
    /\ opPC = "AddToManager"
    /\ store.endpoints # {}
    /\ \E i \in SkippedNodes : Lacks(listed.nodes[i]) = 1

\* The networks of the pod CIDRs the edge nodes listed at startup carry.
ExistingPodCIDRs ==
    UNION {{ParseCIDR(c).net : c \in {x \in Range(listed.nodes[i].podCIDRs) : ParseCIDR(x).ok}} :
              i \in 1..Len(listed.nodes)}

\* C10: with Calico, once the agent controller is registered every pod
\* CIDR that an edge node listed at startup carries is recorded as used in
\* the allocator.
C10_ExistingPodCIDRsRecorded ==
    (opts.CNIType = CNICalico /\ "agentctl" \in Range(registered))
        => ExistingPodCIDRs \subseteq allocator

\* C14: a member never holds the CA private key. After Complete in member
\* role PrivateKey is unset, createCertManager was not called and the cert
\* manager, once built, is the remote one with the API client it signs
\* through; a cert manager holding the CA key exists in host role only.
C14_KeyOnlyOnHost ==
    opPC # "Complete" =>
        /\ opts.ClusterRole = RoleMember =>
              /\ ~opts.PrivateKey
              /\ "createCertManager" \notin Range(opLog)
              /\ opts.CertManager \in {"none", "remote"}
              /\ "NewRemoteManager" \in Range(opLog) /\ completeErr # "NewRemoteManager"
                    => opts.CertManager = "remote" /\ opts.APIClient.set
        /\ opts.CertManager = "local" => opts.ClusterRole = RoleHost /\ opts.PrivateKey

\* Complete has succeeded in member role and built the remote cert manager.
C14_Witness ==
    /\ opPC = "RunManager"
    /\ opts.ClusterRole = RoleMember
    /\ opts.CertManager = "remote"
    /\ ~opts.PrivateKey

\* The last call of recordEndpoints returned nil.
RecordEndpointsSucceeded ==
    initSteps # <<>> /\ initSteps[Len(initSteps)] = InitStep("recordEndpoints", "nil")

\* C17: after recordEndpoints succeeds, the store holds for every Community
\* listed a community of the same name whose members are the set of
\* Spec.Members, whatever the CNI type.
C17_CommunitiesMirrored ==
    RecordEndpointsSucceeded =>
        \A i \in 1..Len(listed.communities) :
            \E c \in store.communities :
                /\ c.Name = listed.communities[i].Name
                /\ c.Members = Range(listed.communities[i].Members)

\* recordEndpoints has succeeded without edge IPAM on a community that
\* names a member twice, and has stored no endpoint.
C17_Witness ==
    /\ RecordEndpointsSucceeded
    /\ ~opts.EnableEdgeIPAM
    /\ store.endpoints = {}
    /\ \E i \in 1..Len(listed.communities) :
          Len(listed.communities[i].Members) > Cardinality(Range(listed.communities[i].Members))

\* C18: Complete returns nil only when no step of it failed, and then the
\* manager, the store and the cert manager are set.
C18_NilOnlyOnSuccess ==
    completeErr = "nil" =>
        /\ fault = "none"
        /\ opts.Manager
        /\ opts.Store
        /\ opts.CertManager # "none"

\* What initializeControllers adds to the manager after recordEndpoints.
Consumers ==
    {"connectorctl", "agentctl", "cmmctl", "proxyctl", "clusterctl", "LocalClusterReporter",
     "LoadEndpointsAndCommunities", "ExportEndpoints"}

\* C20: a controller or a federation routine is in the manager only after
\* recordEndpoints returned nil, with Calico after recordIPAMBlocks returned
\* nil before it (without Calico recordIPAMBlocks is not called); and when
\* either fails, initializeControllers ends with that error and none of
\* them is in the manager.
C20_RecordedBeforeConsumers ==
    /\ Range(registered) \cap Consumers # {} =>
          /\ InitStep("recordEndpoints", "nil") \in Range(initSteps)
          /\ opts.CNIType = CNICalico =>
                Before(initSteps, InitStep("recordIPAMBlocks", "nil"),
                       InitStep("recordEndpoints", "nil"))
    /\ opts.CNIType # CNICalico =>
          \A i \in 1..Len(initSteps) : initSteps[i].step # "recordIPAMBlocks"
    /\ \A i \in 1..Len(initSteps) :
          initSteps[i].err # "nil" =>
              /\ Range(registered) \cap Consumers = {}
              /\ opPC = "exit"
              /\ runErr = initSteps[i].err

\* With Calico both have returned nil and the agent controller is added.
C20_Witness ==
    /\ opts.CNIType = CNICalico
    /\ "agentctl" \in Range(registered)
    /\ Before(initSteps, InitStep("recordIPAMBlocks", "nil"), InitStep("recordEndpoints", "nil"))

(***************************************************************************)
(* Claims about runAPIServer.                                              *)
(***************************************************************************)

\* C6: when the context given to runAPIServer is cancelled, runAPIServer
\* returns and the server stops listening.
C6_ServerExitsOnCancel == ctxDone ~> (apiPC = "returned" /\ ~listening)

(***************************************************************************)
(* Claims about Options.Validate.                                          *)
(***************************************************************************)

\* The addresses of a CIDR that parses.
Addresses(cidr) ==
    {a \in 0..(2^AddrBits - 1) :
        a \div 2^(AddrBits - cidr[2]) = cidr[1] \div 2^(AddrBits - cidr[2])}

\* EdgePodCIDR and every connector subnet parse.
CIDRsParse(o) ==
    /\ o.EdgePodCIDR[2] <= AddrBits
    /\ \A i \in 1..Len(o.ProvidedSubnets) : o.ProvidedSubnets[i][2] <= AddrBits

\* EdgePodCIDR shares an address with a connector subnet.
SharesAddress(o) ==
    \E i \in 1..Len(o.ProvidedSubnets) :
        Addresses(o.EdgePodCIDR) \cap Addresses(o.ProvidedSubnets[i]) # {}

OverlapError == "EdgePodCIDR is overlaped with connector's subnets"

\* The options are valid but for EdgePodCIDR, the connector subnets and
\* edge IPAM.
ValidButCIDRs(o) ==
    [o EXCEPT !.EnableEdgeIPAM = FALSE, !.EdgePodCIDR = NoCIDR, !.ProvidedSubnets = <<>>]
        = ValidOptions

\* C11: with edge IPAM enabled and CIDRs that parse, Validate returns an
\* error when EdgePodCIDR shares an address with a connector subnet (the
\* overlap error when nothing else is wrong), and does not return the
\* overlap error when it shares none.
C11_OverlapRejected ==
    (vErr # "unset" /\ vOpts.EnableEdgeIPAM /\ CIDRsParse(vOpts)) =>
        /\ SharesAddress(vOpts) => vErr # "nil"
        /\ SharesAddress(vOpts) /\ ValidButCIDRs(vOpts) => vErr = OverlapError
        /\ ~SharesAddress(vOpts) => vErr # OverlapError

\* Validate has rejected an EdgePodCIDR that lies inside the second
\* connector subnet, and whose address is not the subnet's.
C11_Witness ==
    /\ vErr = OverlapError
    /\ Len(vOpts.ProvidedSubnets) = 2
    /\ CIDRsParse(vOpts)
    /\ Addresses(vOpts.EdgePodCIDR) \cap Addresses(vOpts.ProvidedSubnets[1]) = {}
    /\ Addresses(vOpts.EdgePodCIDR) \subseteq Addresses(vOpts.ProvidedSubnets[2])
    /\ Addresses(vOpts.EdgePodCIDR) # Addresses(vOpts.ProvidedSubnets[2])
    /\ vOpts.EdgePodCIDR[1] # vOpts.ProvidedSubnets[2][1]

\* The options are valid but for the leader-election durations.
ValidButDurations(o) ==
    [o EXCEPT !.LeaseDuration = ValidOptions.LeaseDuration,
              !.RenewDeadline = ValidOptions.RenewDeadline,
              !.RetryPeriod = ValidOptions.RetryPeriod] = ValidOptions

\* C12 as stated: with all other options valid, Validate accepts the
\* durations iff leaseDuration > renewDeadline > retryPeriod * 1.2 >= 1s.
C12_DurationsAsStated ==
    (vErr # "unset" /\ ValidButDurations(vOpts)) =>
        (vErr = "nil" <=>
            /\ vOpts.LeaseDuration > vOpts.RenewDeadline
            /\ 10 * vOpts.RenewDeadline > 12 * vOpts.RetryPeriod
            /\ 12 * vOpts.RetryPeriod >= 10 * Second)

\* C12 amended: with all other options valid, Validate accepts the
\* durations iff leaseDuration > renewDeadline > retryPeriod * 1.2 and
\* retryPeriod >= 1s.
C12_DurationsAccepted ==
    (vErr # "unset" /\ ValidButDurations(vOpts)) =>
        (vErr = "nil" <=>
            /\ vOpts.LeaseDuration > vOpts.RenewDeadline
            /\ 10 * vOpts.RenewDeadline > 12 * vOpts.RetryPeriod
            /\ vOpts.RetryPeriod >= Second)

\* Validate has rejected durations in the stated order whose retryPeriod
\* is less than one second while retryPeriod * 1.2 is not.
C12_Witness ==
    /\ ValidButDurations(vOpts)
    /\ vErr = "retryPeriod must be greater than 1 second"
    /\ 12 * vOpts.RetryPeriod >= 10 * Second

\* Validate did not reject the cluster name.
NameAccepted == vErr \notin {"unset", "a cluster name is required", "invalid cluster name"}

\* An RFC-1123 DNS label: lowercase alphanumerics and "-", beginning and
\* ending with an alphanumeric.
IsLabel(s) ==
    /\ s # <<>>
    /\ \A i \in 1..Len(s) : s[i] \in {"a", "0", "-"}
    /\ s[1] # "-"
    /\ s[Len(s)] # "-"

\* RFC-1123 DNS labels joined by single dots.
IsDNSName(s) ==
    /\ s # <<>>
    /\ \A i \in 1..Len(s) : s[i] \in {"a", "0", "-", "."}
    /\ s[1] \in {"a", "0"}
    /\ s[Len(s)] \in {"a", "0"}
    /\ \A i \in 1..Len(s) :
          s[i] = "." => s[i - 1] \in {"a", "0"} /\ s[i + 1] \in {"a", "0"}

\* C13 as stated: Validate accepts a cluster name iff it is an RFC-1123 DNS
\* label, which has no dot.
C13_LabelsOnly == vErr # "unset" => (NameAccepted <=> IsLabel(vOpts.Cluster))

\* C13 amended: Validate accepts a cluster name iff it is not empty and is
\* an RFC-1123 DNS name: one or more labels joined by single dots.
C13_DNSNames == vErr # "unset" => (NameAccepted <=> IsDNSName(vOpts.Cluster))

\* Validate has accepted a cluster name of two labels.
C13_Witness ==
    /\ vErr = "nil"
    /\ Len(vOpts.Cluster) = 3
    /\ vOpts.Cluster[2] = "."

\* The configuration errors C19 names.
ConfigError(o) ==
    \/ o.ClusterRole \notin {RoleHost, RoleMember}
    \/ o.ClusterRole = RoleMember /\ o.InitToken = ""
    \/ o.ClusterRole = RoleHost /\ "missing" \in {o.APIServerKeyFile, o.APIServerCertFile}
    \/ o.EdgeLabels = {}
    \/ o.ConnectorLabels = {}
    \/ o.PublicAddresses = {}
    \/ \E i \in 1..Len(o.ProvidedSubnets) : o.ProvidedSubnets[i][2] > AddrBits
    \/ o.EnableEdgeIPAM /\ o.EdgePodCIDR[2] > AddrBits
    \/ o.ImagePullPolicy \notin {"Always", "IfNotPresent", "Never"}

C15_DoEnsuresValidSecret ==
    (lastOp.op = "Do" /\ lastOp.err = "nil") =>
        LET secret == certSecrets[getCertSecretName(lastOp.node)]
        IN  /\ secret.exists
            /\ VerifyCertInPEM(secret.cert, {"ServerAuth", "ClientAuth"})
            /\ secret.ca = CACert

\* Do has succeeded on a secret whose certificate had expired.
C15_Witness ==
    /\ lastOp.op = "Do"
    /\ lastOp.err = "nil"
    /\ lastOp.prior.exists
    /\ lastOp.prior.cert.validity = "expired"

\* C16: after Undo succeeds for a node, no TLS secret of that node exists.
C16_UndoRemovesSecret ==
    (lastOp.op = "Undo" /\ lastOp.err = "nil") =>
        ~certSecrets[getCertSecretName(lastOp.node)].exists

\* Undo has succeeded for a node whose secret Do had created.
C16_Witness ==
    /\ lastOp.op = "Undo"
    /\ lastOp.err = "nil"
    /\ lastOp.prior.exists
    /\ lastOp.prior.cert.usages = ExtKeyUsagesServerAndClient

(***************************************************************************)
(* Claims about what RunManager and initializeControllers add to the       *)
(* manager.                                                                *)
(***************************************************************************)

Registered == Range(registered)

\* The intervals the routine r was added with.
IntervalsOf(r) == {ri[2] : ri \in {x \in intervals : x[1] = r}}

\* C21: the cluster role decides what runs. In host role the manager never
\* gets the pull routine (LoadEndpointsAndCommunities) nor the push routine
\* (ExportEndpoints), and once initializeControllers has succeeded it holds
\* the API server runnable and the LocalClusterReporter. In member role the
\* manager never gets the API server runnable nor the LocalClusterReporter,
\* and once initializeControllers has succeeded it holds the pull and the
\* push routine, each with an interval of 10 seconds.
C21_RoleDecidesRunnables ==
    /\ opts.ClusterRole = RoleHost =>
          Registered \cap {"LoadEndpointsAndCommunities", "ExportEndpoints"} = {}
    /\ opts.ClusterRole = RoleMember =>
          Registered \cap {"runAPIServer", "LocalClusterReporter"} = {}
    /\ opPC = "running" =>
          IF opts.ClusterRole = RoleHost
          THEN {"runAPIServer", "LocalClusterReporter"} \subseteq Registered
          ELSE /\ {"LoadEndpointsAndCommunities", "ExportEndpoints"} \subseteq Registered
               /\ IntervalsOf("LoadEndpointsAndCommunities") = {10 * Second}
               /\ IntervalsOf("ExportEndpoints") = {10 * Second}

\* A member cluster's operator is running with its push routine added.
C21_Witness ==
    /\ opPC = "running"
    /\ opts.ClusterRole = RoleMember
    /\ "ExportEndpoints" \in Registered

(***************************************************************************)
(* Claims about the CNI types of Complete.                                 *)
(***************************************************************************)

\* C23: Complete accepts a closed set of CNI types. With a CNIType that,
\* trimmed of whitespace, is neither calico nor flannel it returns the
\* unknown-CNI error having created no client and no manager. With calico it
\* enables edge IPAM, creates the PodCIDRStore and calls allocator.New on
\* EdgePodCIDR first of all, and it returns that call's error when the
\* allocator cannot be created. With flannel edge IPAM stays disabled and no
\* allocator is created.
C23_ClosedCNITypes ==
    completeErr # "unset" =>
        LET cni == TrimSpace(opts.CNIType)
        IN  /\ cni \notin {CNICalico, CNIFlannel} =>
                  /\ completeErr = "unknown CNI"
                  /\ opLog = <<>>
                  /\ ~opts.Manager /\ ~opts.Store /\ ~opts.APIClient.set
                  /\ ~opts.EnableEdgeIPAM /\ ~opts.PodCIDRStore /\ ~opts.Allocator
            /\ cni = CNICalico =>
                  /\ opts.EnableEdgeIPAM
                  /\ opts.PodCIDRStore
                  /\ opLog # <<>> /\ opLog[1] = "allocator.New"
                  /\ opts.Allocator => ParseCIDR(opts.EdgePodCIDR).ok
                  /\ (fault = "allocator.New" \/ ~ParseCIDR(opts.EdgePodCIDR).ok) =>
                        /\ completeErr = "allocator.New"
                        /\ ~opts.Allocator
                        /\ opLog = <<"allocator.New">>
            /\ cni = CNIFlannel =>
                  /\ ~opts.EnableEdgeIPAM
                  /\ ~opts.PodCIDRStore
                  /\ ~opts.Allocator
                  /\ "allocator.New" \notin Range(opLog)
                  /\ completeErr # "unknown CNI"

\* Complete has rejected a CNI type that is neither calico nor flannel.
C23_Witness ==
    /\ completeErr = "unknown CNI"
    /\ opts.CNIType = <<"cilium">>

(***************************************************************************)
(* Claims about recordIPAMBlocks.                                          *)
(***************************************************************************)

\* recordIPAMBlocks is the last thing initializeControllers has called.
RecordIPAMBlocksRan ==
    /\ initSteps # <<>>
    /\ initSteps[Len(initSteps)].step = "recordIPAMBlocks"

\* The blocks of the list that are not deleted, carry an affinity and whose
\* affinity names a node.
NamingBlocks ==
    {i \in 1..Len(ipamBlocks) :
        /\ ~ipamBlocks[i].Deleted
        /\ ipamBlocks[i].Affinity # NoAffinity
        /\ GetNodeName(ipamBlocks[i]) # ""}

\* C24: after recordIPAMBlocks has succeeded, the PodCIDRStore holds a CIDR
\* under a node name exactly if a block of the list has that CIDR, is not
\* deleted, has an affinity, and its affinity yields that node name, which is
\* not empty; a block failing one of the three adds nothing. After a List
\* that failed the store holds nothing and the error is returned.
C24_StoreHoldsNamingBlocks ==
    RecordIPAMBlocksRan =>
        IF initSteps[Len(initSteps)].err = "nil"
        THEN podCIDRStore =
                {<<GetNodeName(ipamBlocks[i]), ipamBlocks[i].CIDR>> : i \in NamingBlocks}
        ELSE /\ podCIDRStore = {}
             /\ runErr = "List IPAMBlocks"
             /\ opPC = "exit"

\* recordIPAMBlocks has recorded one block of a list and skipped another.
C24_Witness ==
    /\ RecordIPAMBlocksRan
    /\ initSteps[Len(initSteps)].err = "nil"
    /\ podCIDRStore # {}
    /\ Cardinality(NamingBlocks) < Len(ipamBlocks)

(***************************************************************************)
(* Claims about the goroutine of runAPIServer.                             *)
(***************************************************************************)

\* C27: the goroutine serving the API ends once ListenAndServeTLS has
\* returned: it is never left sending on errChan after runAPIServer has
\* returned, when nothing receives from the channel any more and the send
\* can never complete.
C27_GoroutineNeverLeftSending ==
    ~(apiPC = "returned" /\ srvPC = "send")

(***************************************************************************)
(* Claims about the tasks of the connector and their failures.             *)
(***************************************************************************)

\* The execution of the tunnel task that goroutine g has just ended logged
\* the call with the result.
Logged(g, call, res) ==
    \E i \in 1..Len(log[g]) : log[g][i].call = call /\ log[g][i].res = res

\* The calls of Broadcast that execution made.
Broadcasts(g) == {i \in 1..Len(log[g]) : log[g][i].call = "Broadcast"}

\* That execution failed to sync, to get the prefixes or to marshal them, or
\* got an empty list of local or of remote prefixes.
NothingToBroadcast(g) ==
    \/ Logged(g, "syncConnections", "err")
    \/ Logged(g, "GetConnectorPrefixes", "err")
    \/ \E i \in 1..Len(log[g]) :
          /\ log[g][i].call = "GetConnectorPrefixes"
          /\ log[g][i].res = "ok"
          /\ (log[g][i].cp.LocalPrefixes = {} \/ log[g][i].cp.RemotePrefixes = {})
    \/ Logged(g, "Marshal", "err")

\* C25: an execution of the tunnel task in which syncConnections or
\* GetConnectorPrefixes failed, a prefix list was empty or the payload could
\* not be marshaled issues no broadcast, and no execution issues more than
\* one.
C25_NoBroadcastOnFailure ==
    \A g \in Goroutines :
        pc[g] = "routeTaskFn" =>
            /\ NothingToBroadcast(g) => Broadcasts(g) = {}
            /\ Cardinality(Broadcasts(g)) <= 1

\* The task, by its place in tasks, that a position of a goroutine belongs
\* to; 0 for a goroutine that is not inside a round.
TaskOf(p) ==
    IF p \in {"tunnelTaskFn", "syncConnections", "broadcastToAgents"} THEN 1
    ELSE IF p \in {"routeTaskFn", "IsActive", "SyncRoutes", "CleanRoutes"} THEN 2
    ELSE IF p \in {ipsetPC(i) : i \in 1..Len(ipsetSteps)} THEN 3
    ELSE IF p \in {"iptablesTaskFn"} \cup {iptablesSteps[i] : i \in 2..Len(iptablesSteps)} THEN 4
    ELSE 0

\* The names of the calls an execution has logged, in order.
CallNames(l) == [i \in 1..Len(l) |-> l[i].call]

\* C22: in the periodic loop the first round starts with Manager.Start,
\* without a tick being awaited; a round runs tunnelTaskFn, routeTaskFn,
\* ipsetTaskFn and iptablesTaskFn in that order, each once: the loop leaves a
\* task only for the start of the next one, and the last one only to wait
\* for a tick; and a further round starts only from that wait, so after the
\* round before it has finished, and by taking a tick of SyncPeriod.
C22_RoundsInOrderOnTicks ==
    [][LET p == pc["runTasks"]
           q == pc'["runTasks"]
       IN  p # q =>
             /\ p = "unstarted" => (q = tasks[1] /\ ~tick /\ ~tick')
             /\ TaskOf(p) > 0 =>
                   \/ TaskOf(q) = TaskOf(p) /\ q # tasks[TaskOf(p)]
                   \/ TaskOf(p) < Len(tasks) /\ q = tasks[TaskOf(p) + 1]
                   \/ TaskOf(p) = Len(tasks) /\ q = "waitTick"
             /\ q = tasks[1] => p \in {"unstarted", "waitTick"}
             /\ p = "waitTick" => (q = tasks[1] /\ tick /\ ~tick')]_vars

\* The periodic loop has finished a round, whose last task made its three
\* calls, and the tick that starts the next round is there.
C22_Witness ==
    /\ pc["runTasks"] = "waitTick"
    /\ CallNames(log["runTasks"]) = iptablesSteps
    /\ tick

\* C26: a step that fails never blocks the steps after it. A goroutine
\* whose call has returned an error goes on within the task or with the
\* next task of the round, and leaves the round only after the last task;
\* the ipset task ends having called all four set syncs and the iptables
\* task having called all three ensure steps, whatever each returned; and
\* gracefulShutdown goes from CleanRoutes to CleanSNatIPTablesRules whether
\* or not CleanRoutes failed, and returns only after that call.
C26_FailuresDoNotBlock ==
    [][/\ \A g \in Goroutines :
            pc'[g] # pc[g] =>
                LET k == TaskOf(pc[g])
                    failed == log'[g] # <<>> /\ log'[g][Len(log'[g])].res = "err"
                IN  /\ (k > 0 /\ failed) =>
                          \/ TaskOf(pc'[g]) = k
                          \/ k < Len(tasks) /\ pc'[g] = tasks[k + 1]
                          \/ k = Len(tasks) /\ pc'[g] = RoundEnd(g)
                    /\ (k = 3 /\ TaskOf(pc'[g]) # 3) => CallNames(log'[g]) = ipsetSteps
                    /\ (k = 4 /\ TaskOf(pc'[g]) # 4) => CallNames(log'[g]) = iptablesSteps
       /\ mainPC' # mainPC =>
            /\ mainPC = "CleanRoutes" => mainPC' = "CleanSNatIPTablesRules"
            /\ mainPC' = "exited" => mainPC = "CleanSNatIPTablesRules"]_vars

\* gracefulShutdown has called CleanSNatIPTablesRules after a CleanRoutes
\* that failed, and a goroutine has ended the iptables task with all three
\* ensure steps called after the first one failed.
C26_Witness ==
    /\ mainPC = "exited"
    /\ "CleanRoutes" \in shutdownErrs
    /\ \E g \in Goroutines :
          /\ pc[g] = RoundEnd(g)
          /\ CallNames(log[g]) = iptablesSteps
          /\ log[g][1].res = "err"
====
